---- MODULE Spec2Model ----
(***************************************************************************)
(* A model of the AI product categorizer: the category tree builder        *)
(* (utils/categoryTree), the tabular codec (utils/csv: detectSeparator,    *)
(* parseCsv, parseEnrichmentCsv, generateCsvContent) and the bulk workflow *)
(* of the application (App: processBulkFile and the handlers of the queue  *)
(* and of the saved product list).  Each utility is a pure function; it is *)
(* modelled as operators that compute what the code computes, and applied  *)
(* by the actions of a specification whose initial states enumerate its    *)
(* inputs.  The application is a state machine of its React state and of   *)
(* the position of processBulkFile between its awaits.                     *)
(***************************************************************************)
EXTENDS Integers, Sequences, FiniteSets, TLC

VARIABLES
    categories,   \* buildCategoryTree: the input list of Category records
    treePc,       \* buildCategoryTree: "ready" | "done"
    treeResult,   \* buildCategoryTree: the returned roots and the node objects
    csvFormat,    \* which parser the caller runs: "create" | "enrichment"
    content,      \* parseCsv / parseEnrichmentCsv: the text of the uploaded file
    brands,       \* parseCsv / parseEnrichmentCsv: the brand list supplied
    parsePc,      \* position in the parser
    rawLines,     \* parser local: the physical lines
    separator,    \* parser local: the detected separator
    header,       \* parser local: the header tokens
    lines,        \* parser local: the data rows that are mapped to records
    parseResult,  \* what the parser returned or threw
    products,     \* generateCsvContent: the product list to export
    genPc,        \* generateCsvContent: "ready" | "done"
    csvOutput,    \* generateCsvContent: the text returned
    mode,             \* App state: 'single' | 'bulk-create' | 'bulk-enrich'
    savedProducts,    \* App state: the saved product list
    isModalOpen,      \* App state: the saved products modal is shown
    bulkProducts,     \* App state: the bulk queue
    isBulkProcessing, \* App state: the processing flag
    editingBulkIndex, \* App state: null (<<>>) or the index of the item edited
    bulkPc,           \* processBulkFile: the await it is suspended at, or "idle"
    bulkFile,         \* processBulkFile: its arguments (type and text of the file)
    newProducts,      \* processBulkFile local: the items made from the parse
    loopIndex,        \* processBulkFile local: i of the for loop
    inFlight,         \* the external calls started and not yet settled
    callsStarted,     \* the external calls started by the run that made the queue
    queueAtUpload,    \* the queue as it was when that run was called
    runOutcome,       \* how that run ended, and the error it alerted
    uploads,          \* the number of calls of processBulkFile so far
    unreviewRemoved,  \* how many saved records the step just taken removed by un-review
    reviewedFrom,     \* the item the step just taken marked reviewed, and the saved list before it
    localStorage,     \* the browser's storage of the page: key |-> stored value
    skuArgs,          \* generateSmartSku: productType, brandName and modelName
    skuPc,            \* generateSmartSku: "idle" | "ready" | "done"
    smartSku          \* generateSmartSku: the string returned

treeVars == <<categories, treePc, treeResult>>

parseVars == <<csvFormat, content, brands, parsePc, rawLines, separator, header,
               lines, parseResult>>

genVars == <<products, genPc, csvOutput>>

bulkVars == <<mode, savedProducts, isModalOpen, bulkProducts, isBulkProcessing,
              editingBulkIndex, bulkPc, bulkFile, newProducts, loopIndex, inFlight,
              callsStarted, queueAtUpload, runOutcome, uploads, unreviewRemoved,
              reviewedFrom,
              localStorage>>

skuVars == <<skuArgs, skuPc, smartSku>>

vars == <<treeVars, parseVars, genVars, bulkVars, skuVars>>

(***************************************************************************)
(* Bounds                                                                  *)
(***************************************************************************)
MaxCategories == 4

MaxDataLines == 2

MaxProducts == 2

\* Data rows of an uploaded file.
MaxUploadRows == 2

\* Products saved from the single-product editor.
MaxSaved == 1

\* Calls of processBulkFile in one session.
MaxUploads == 1
MaxNameLen == 3

(***************************************************************************)
(* Generic helpers                                                         *)
(***************************************************************************)
SeqsUpTo(S, n) == UNION {[1..k -> S] : k \in 0..n}

Range(s) == {s[i] : i \in DOMAIN s}

(***************************************************************************)
(* utils/categoryTree: buildCategoryTree                                   *)
(*                                                                         *)
(* A CategoryNode is an object; nodeMap holds one object per id, so a node *)
(* object is identified by its id and a reference to it (in roots, in a    *)
(* children array) is that id.  The name field is copied by the spread     *)
(* and never read, so it is left out.                                      *)
(***************************************************************************)
CategoryIds == {1, 2, 3, 4}

\* 0 marks a root; 99 is an id no record carries.
ParentIds == {0, 1, 2, 99}

Category == [id : CategoryIds, parent : ParentIds]

NoTree == [roots |-> <<>>, nodeMap |-> <<>>]

\* nodeMap.set(category.id, { ...category, children: [] })
SetNode(nodeMap, category) ==
    (category.id :> [id |-> category.id, parent |-> category.parent, children |-> <<>>])
        @@ nodeMap

RECURSIVE FirstPass(_, _)
FirstPass(cats, nodeMap) ==
    IF cats = <<>> THEN nodeMap
    ELSE FirstPass(Tail(cats), SetNode(nodeMap, Head(cats)))

\* Mutant of PushRoot: the node is put in front (unshift).
PushRootFront(roots, id) == <<id>> \o roots

\* roots.push(node)
PushRoot(roots, id) == Append(roots, id)

\* parentNode.children.push(node)
PushChild(children, id) == Append(children, id)

\* The body of the second forEach, for one category.
LinkNode(st, category) ==
    IF category.id \notin DOMAIN st.nodeMap THEN st
    ELSE IF category.parent = 0
         THEN [st EXCEPT !.roots = PushRoot(@, category.id)]
    ELSE IF category.parent \in DOMAIN st.nodeMap
         THEN [st EXCEPT !.nodeMap[category.parent].children = PushChild(@, category.id)]
    ELSE st

RECURSIVE SecondPass(_, _)
SecondPass(cats, st) ==
    IF cats = <<>> THEN st
    ELSE SecondPass(Tail(cats), LinkNode(st, Head(cats)))

buildCategoryTree(cats) ==
    SecondPass(cats, [roots |-> <<>>, nodeMap |-> FirstPass(cats, <<>>)])

(***************************************************************************)
(* Specification of the tree builder: every list of at most MaxCategories  *)
(* records is an input; the one action applies the function.               *)
(***************************************************************************)
TreeIdle ==
    /\ categories = <<>>
    /\ treePc = "idle"
    /\ treeResult = NoTree

ParseIdle ==
    /\ csvFormat = "create"
    /\ content = <<>>
    /\ brands = <<>>
    /\ parsePc = "idle"
    /\ rawLines = <<>>
    /\ separator = ","
    /\ header = <<>>
    /\ lines = <<>>
    /\ parseResult = [status |-> "none", records |-> <<>>, error |-> [kind |-> "none"]]

GenIdle ==
    /\ products = <<>>
    /\ genPc = "idle"
    /\ csvOutput = <<>>

\* No call of processBulkFile under way: no file at hand.
NoFile == [type |-> "none", text |-> <<>>]

\* The application as it is mounted: useState initial values, and no call of
\* processBulkFile under way.
BulkIdle ==
    /\ mode = "single"
    /\ savedProducts = <<>>
    /\ isModalOpen = FALSE
    /\ bulkProducts = <<>>
    /\ isBulkProcessing = FALSE
    /\ editingBulkIndex = <<>>
    /\ bulkPc = "idle"
    /\ bulkFile = NoFile
    /\ newProducts = <<>>
    /\ loopIndex = 0
    /\ inFlight = {}
    /\ callsStarted = <<>>
    /\ queueAtUpload = <<>>
    /\ runOutcome = [kind |-> "none", error |-> [kind |-> "none"]]
    /\ uploads = 0
    /\ unreviewRemoved = 0
    /\ reviewedFrom = <<>>
    /\ localStorage = <<>>

SkuIdle ==
    /\ skuArgs = <<>>
    /\ skuPc = "idle"
    /\ smartSku = <<>>

InitTree ==
    /\ \E n \in 0..MaxCategories : categories \in [1..n -> Category]
    /\ treePc = "ready"
    /\ treeResult = NoTree
    /\ ParseIdle
    /\ GenIdle
    /\ BulkIdle
    /\ SkuIdle

BuildCategoryTree ==
    /\ treePc = "ready"
    /\ treeResult' = buildCategoryTree(categories)
    /\ treePc' = "done"
    /\ UNCHANGED <<categories, parseVars, genVars, bulkVars, skuVars>>

NextTree == BuildCategoryTree

SpecTree == InitTree /\ [][NextTree]_vars

(***************************************************************************)
(* The forest a caller can walk: the nodes reachable from the roots        *)
(* through children arrays.                                                *)
(***************************************************************************)
ChildrenOf(t, n) == t.nodeMap[n].children

RECURSIVE Reach(_, _)
Reach(t, S) ==
    LET S2 == S \cup UNION {Range(ChildrenOf(t, n)) : n \in S}
    IN  IF S2 = S THEN S ELSE Reach(t, S2)

ForestNodes(t) == Reach(t, Range(t.roots))

\* The places of the forest that hold node n: slots of the roots array and
\* slots of the children arrays of the nodes of the forest.
Attachments(t, n) ==
    {<<0, i>> : i \in {j \in DOMAIN t.roots : t.roots[j] = n}}
    \cup UNION {{<<m, i>> : i \in {j \in DOMAIN ChildrenOf(t, m) : ChildrenOf(t, m)[j] = n}}
                : m \in ForestNodes(t)}

InputIds == {categories[i].id : i \in DOMAIN categories}

IdsOf(cats) == [i \in DOMAIN cats |-> cats[i].id]

WithParent(cats, p) == SelectSeq(cats, LAMBDA c : c.parent = p)

SpecExampleInput ==
    <<[id |-> 1, parent |-> 0], [id |-> 2, parent |-> 1], [id |-> 3, parent |-> 99]>>

\* C1: for every input list, no node of the returned forest (a root or a node
\* in a children list reachable from a root) carries a non-zero parent id that
\* matches no id of the input list; for the list of the concrete scenario the
\* forest is root 1 with the single child 2, and 3 is absent.
C1_NoDanglingRecordInForest ==
    treePc = "done" =>
        /\ \A n \in ForestNodes(treeResult) :
               \/ treeResult.nodeMap[n].parent = 0
               \/ treeResult.nodeMap[n].parent \in InputIds
        /\ categories = SpecExampleInput =>
               /\ treeResult.roots = <<1>>
               /\ ChildrenOf(treeResult, 1) = <<2>>
               /\ ChildrenOf(treeResult, 2) = <<>>
               /\ ForestNodes(treeResult) = {1, 2}

\* C2: for every input list, no node appears twice in the returned forest: it
\* is attached at most once, as a root or in the children list of one parent.
C2_NoNodeAttachedTwice ==
    treePc = "done" =>
        \A n \in CategoryIds : Cardinality(Attachments(treeResult, n)) <= 1

\* C3: for every input list, every root of the returned forest has parent 0
\* and every other node of the forest has a parent field equal to the id of
\* the node whose children list contains it.
C3_ParentFieldMatchesContainer ==
    treePc = "done" =>
        /\ \A i \in DOMAIN treeResult.roots :
               treeResult.nodeMap[treeResult.roots[i]].parent = 0
        /\ \A m \in ForestNodes(treeResult) :
               \A i \in DOMAIN ChildrenOf(treeResult, m) :
                   treeResult.nodeMap[ChildrenOf(treeResult, m)[i]].parent = m

\* C4: for every input list, the roots are the nodes of the records whose
\* parent is 0, in the order of those records in the input, and the children
\* of a node are the nodes of the records that name it as parent, in the
\* order of those records in the input.
C4_InputOrderPreserved ==
    treePc = "done" =>
        /\ treeResult.roots = IdsOf(WithParent(categories, 0))
        /\ \A p \in DOMAIN treeResult.nodeMap :
               ChildrenOf(treeResult, p) = IdsOf(WithParent(categories, p))

\* C4 witness: two roots and two siblings, each pair listed in the input
\* against the order of their ids.
C4_Witness ==
    /\ treePc = "done"
    /\ treeResult.roots = <<2, 1>>
    /\ ChildrenOf(treeResult, 1) = <<4, 3>>

(***************************************************************************)
(* Text.  A string is a sequence of atoms: an atom is one character that   *)
(* the codec treats specially (comma, tab, newline, space, double quote)   *)
(* or a run of ordinary characters ("watch", "Acme").  The empty string is *)
(* the empty sequence.                                                     *)
(***************************************************************************)
Comma == ","

Tab == "\t"

Newline == "\n"

Space == " "

Quote == "\""

\* What String.prototype.trim removes, among the atoms of the model.
Whitespace == {Space, Tab, Newline}

\* JavaScript undefined: the value of a property that was never set.  It is a
\* sequence no text of the model equals.
Undefined == <<"<undefined>">>

\* !v for a string-or-undefined v
Falsy(v) == v = Undefined \/ v = <<>>

RECURSIVE TrimStart(_)
TrimStart(s) ==
    IF s # <<>> /\ Head(s) \in Whitespace THEN TrimStart(Tail(s)) ELSE s

RECURSIVE TrimEnd(_)
TrimEnd(s) ==
    IF s # <<>> /\ s[Len(s)] \in Whitespace THEN TrimEnd(SubSeq(s, 1, Len(s) - 1)) ELSE s

\* String.prototype.trim
Trim(s) == TrimEnd(TrimStart(s))

\* The upper-case and mixed-case runs of the model, with their lower-case form.
LowerCaseOf ==
    [a \in {"SKU", "Type", "BRAND", "ImageUrl", "Watch", "Glasses", "GLASSES",
            "ACME", "Acme", "Casio", "Zed", "A1", "A2", "A3", "N1"} |->
        CASE a = "SKU" -> "sku"
          [] a = "Type" -> "type"
          [] a = "BRAND" -> "brand"
          [] a = "ImageUrl" -> "imageurl"
          [] a = "Watch" -> "watch"
          [] a \in {"Glasses", "GLASSES"} -> "glasses"
          [] a \in {"ACME", "Acme"} -> "acme"
          [] a = "Casio" -> "casio"
          [] a = "Zed" -> "zed"
          [] a = "A1" -> "a1"
          [] a = "A2" -> "a2"
          [] a = "A3" -> "a3"
          [] a = "N1" -> "n1"]

\* String.prototype.toLowerCase
toLowerCase(s) ==
    [i \in DOMAIN s |-> IF s[i] \in DOMAIN LowerCaseOf THEN LowerCaseOf[s[i]] ELSE s[i]]

\* String.prototype.split on a one-character separator: "" splits into [""].
RECURSIVE Split(_, _)
Split(s, sep) ==
    IF \A i \in DOMAIN s : s[i] # sep THEN <<s>>
    ELSE LET k == CHOOSE i \in DOMAIN s : s[i] = sep /\ \A j \in 1..(i - 1) : s[j] # sep
         IN  <<SubSeq(s, 1, k - 1)>> \o Split(SubSeq(s, k + 1, Len(s)), sep)

\* Array.prototype.join
RECURSIVE Join(_, _)
Join(parts, sep) ==
    IF parts = <<>> THEN <<>>
    ELSE IF Len(parts) = 1 THEN parts[1]
    ELSE parts[1] \o <<sep>> \o Join(Tail(parts), sep)

\* (s.match(/c/g) || []).length
RECURSIVE MatchCount(_, _)
MatchCount(s, c) ==
    IF s = <<>> THEN 0
    ELSE (IF Head(s) = c THEN 1 ELSE 0) + MatchCount(Tail(s), c)

\* value.trim().replace(/^"|"$/g, '')
StripQuotes(s) ==
    LET a == IF s # <<>> /\ Head(s) = Quote THEN Tail(s) ELSE s
    IN  IF a # <<>> /\ a[Len(a)] = Quote THEN SubSeq(a, 1, Len(a) - 1) ELSE a

(***************************************************************************)
(* utils/csv: detectSeparator, parseCsv, parseEnrichmentCsv                *)
(***************************************************************************)
CSV_HEADERS ==
    [SKU |-> <<"sku">>, TYPE |-> <<"type">>, BRAND |-> <<"brand">>,
     MODEL |-> <<"model">>, PRICE |-> <<"price">>, DETAILS |-> <<"details">>,
     IMAGE_URL |-> <<"imageurl">>, COLORS |-> <<"colors">>]

ENRICHMENT_CSV_HEADERS ==
    [ID |-> <<"id">>, SKU |-> <<"sku">>, NAME |-> <<"name">>, TYPE |-> <<"type">>,
     BRAND |-> <<"brand">>, PRICE |-> <<"price">>, IMAGE_URL |-> <<"imageurl">>,
     COLORS |-> <<"colors">>]

\* Mutant of TabWins: a tie goes to the tab.
TabWinsOnTie(tabCount, commaCount) == tabCount > 0 /\ tabCount >= commaCount

\* tabCount > 0 && tabCount > commaCount
TabWins(tabCount, commaCount) == tabCount > 0 /\ tabCount > commaCount

detectSeparator(line) ==
    LET commaCount == MatchCount(line, Comma)
        tabCount == MatchCount(line, Tab)
    IN  IF TabWins(tabCount, commaCount) THEN Tab ELSE Comma

\* content.trim().split(/\r\n|\n/)
SplitLines(text) == Split(Trim(text), Newline)

\* rawLines[0].split(separator).map(h => h.trim().toLowerCase())
HeaderOf(line, sep) ==
    LET tokens == Split(line, sep)
    IN  [i \in DOMAIN tokens |-> toLowerCase(Trim(tokens[i]))]

\* Mutant of Reassemble: what is left in the buffer after the last line is
\* not pushed.
RECURSIVE ReassembleDropsRest(_, _, _, _)
ReassembleDropsRest(rest, lineBuffer, sep, numColumns) ==
    IF rest = <<>> THEN <<>>
    ELSE LET buf == IF lineBuffer # <<>>
                    THEN lineBuffer \o <<Space>> \o Trim(Head(rest))
                    ELSE Trim(Head(rest))
         IN  IF MatchCount(buf, sep) >= numColumns - 1
             THEN <<buf>> \o ReassembleDropsRest(Tail(rest), <<>>, sep, numColumns)
             ELSE ReassembleDropsRest(Tail(rest), buf, sep, numColumns)

\* The loop that joins physical lines into rows, from the buffer it holds.
RECURSIVE Reassemble(_, _, _, _)
Reassemble(rest, lineBuffer, sep, numColumns) ==
    IF rest = <<>>
    THEN IF Trim(lineBuffer) # <<>> THEN <<lineBuffer>> ELSE <<>>
    ELSE LET buf == IF lineBuffer # <<>>
                    THEN lineBuffer \o <<Space>> \o Trim(Head(rest))
                    ELSE Trim(Head(rest))
             columnCount == MatchCount(buf, sep)
         IN  IF columnCount >= numColumns - 1
             THEN <<buf>> \o Reassemble(Tail(rest), <<>>, sep, numColumns)
             ELSE Reassemble(Tail(rest), buf, sep, numColumns)

\* rawLines.slice(1).filter(line => line.trim() !== '')
NonBlankLines(ls) == SelectSeq(ls, LAMBDA l : Trim(l) # <<>>)

\* Mutant of requiredHeaders: every column of CSV_HEADERS is required
\* (Object.values(CSV_HEADERS)).
requiredHeadersAll ==
    <<CSV_HEADERS.SKU, CSV_HEADERS.TYPE, CSV_HEADERS.BRAND, CSV_HEADERS.MODEL,
      CSV_HEADERS.PRICE, CSV_HEADERS.DETAILS, CSV_HEADERS.IMAGE_URL, CSV_HEADERS.COLORS>>

requiredHeaders ==
    <<CSV_HEADERS.SKU, CSV_HEADERS.TYPE, CSV_HEADERS.BRAND, CSV_HEADERS.IMAGE_URL>>

requiredEnrichmentHeaders ==
    <<ENRICHMENT_CSV_HEADERS.ID, ENRICHMENT_CSV_HEADERS.SKU, ENRICHMENT_CSV_HEADERS.NAME,
      ENRICHMENT_CSV_HEADERS.TYPE, ENRICHMENT_CSV_HEADERS.BRAND,
      ENRICHMENT_CSV_HEADERS.IMAGE_URL>>

\* required.filter(rh => !header.includes(rh))
missingHeaders(required, hdr) == SelectSeq(required, LAMBDA rh : rh \notin Range(hdr))

\* new Map(brands.map(b => [b.name.toLowerCase(), b.id]))
RECURSIVE BrandMapOf(_, _)
BrandMapOf(bs, m) ==
    IF bs = <<>> THEN m
    ELSE BrandMapOf(Tail(bs), (toLowerCase(Head(bs).name) :> Head(bs).id) @@ m)

\* header.forEach((h, i) => { if (values[i]) row[h] = values[i].trim().replace(/^"|"$/g, ''); })
RECURSIVE RowOf(_, _, _, _)
RowOf(hdr, values, i, row) ==
    IF i > Len(hdr) THEN row
    ELSE RowOf(hdr, values, i + 1,
               IF i <= Len(values) /\ values[i] # <<>>
               THEN (hdr[i] :> StripQuotes(Trim(values[i]))) @@ row
               ELSE row)

\* row[name]
Get(row, name) == IF name \in DOMAIN row THEN row[name] ELSE Undefined

\* row[name] || ''
GetOrEmpty(row, name) == IF Falsy(Get(row, name)) THEN <<>> ELSE Get(row, name)

\* row[name]?.toLowerCase()
GetLowerCase(row, name) ==
    IF Get(row, name) = Undefined THEN Undefined ELSE toLowerCase(Get(row, name))

CsvProductOf(row) ==
    [sku |-> Get(row, CSV_HEADERS.SKU),
     productType |-> GetLowerCase(row, CSV_HEADERS.TYPE),
     brandName |-> Get(row, CSV_HEADERS.BRAND),
     model |-> GetOrEmpty(row, CSV_HEADERS.MODEL),
     price |-> GetOrEmpty(row, CSV_HEADERS.PRICE),
     userProvidedDetails |-> GetOrEmpty(row, CSV_HEADERS.DETAILS),
     imageUrl |-> Get(row, CSV_HEADERS.IMAGE_URL),
     variantColors |-> GetOrEmpty(row, CSV_HEADERS.COLORS)]

EnrichmentCsvProductOf(row) ==
    [id |-> Get(row, ENRICHMENT_CSV_HEADERS.ID),
     sku |-> Get(row, ENRICHMENT_CSV_HEADERS.SKU),
     name |-> Get(row, ENRICHMENT_CSV_HEADERS.NAME),
     productType |-> GetLowerCase(row, ENRICHMENT_CSV_HEADERS.TYPE),
     brandName |-> Get(row, ENRICHMENT_CSV_HEADERS.BRAND),
     price |-> GetOrEmpty(row, ENRICHMENT_CSV_HEADERS.PRICE),
     imageUrl |-> Get(row, ENRICHMENT_CSV_HEADERS.IMAGE_URL),
     variantColors |-> GetOrEmpty(row, ENRICHMENT_CSV_HEADERS.COLORS)]

NoError == [kind |-> "none"]

\* Mutant of RowNumber: the row is numbered from the first data row as 1.
RowNumberFromOne(index) == index + 1

\* `Row ${index + 2}`
RowNumber(index) == index + 2

\* new Error(`Row ${index + 2}: <reason>`)
RowError(index, reason) == [kind |-> "row", row |-> RowNumber(index), reason |-> reason]

\* Mutant of TypeAllowed: any type that is present.
AnyTypeAllowed(productType) == TRUE

\* ['watch', 'glasses'].includes(product.productType)
TypeAllowed(productType) == productType \in {<<"watch">>, <<"glasses">>}

\* The checks parseCsv makes on one product, in their order; NoError when
\* all pass.
ValidateCsvProduct(product, index, brandMap) ==
    IF Falsy(product.sku) THEN RowError(index, "SKU is missing.")
    ELSE IF Falsy(product.productType) \/ ~TypeAllowed(product.productType)
         THEN RowError(index, "Type must be 'watch' or 'glasses'.")
    ELSE IF Falsy(product.brandName) THEN RowError(index, "Brand is missing.")
    ELSE IF toLowerCase(product.brandName) \notin DOMAIN brandMap
         THEN RowError(index, "Brand not found in the brand list.")
    ELSE IF Falsy(product.imageUrl) THEN RowError(index, "Image URL is missing.")
    ELSE NoError

\* The checks parseEnrichmentCsv makes on one product, in their order.
ValidateEnrichmentCsvProduct(product, index, brandMap) ==
    IF Falsy(product.id) THEN RowError(index, "ID is missing.")
    ELSE IF Falsy(product.sku) THEN RowError(index, "SKU is missing.")
    ELSE IF Falsy(product.name) THEN RowError(index, "Name is missing.")
    ELSE IF Falsy(product.productType) \/ ~TypeAllowed(product.productType)
         THEN RowError(index, "Type must be 'watch' or 'glasses'.")
    ELSE IF Falsy(product.brandName) THEN RowError(index, "Brand is missing.")
    ELSE IF toLowerCase(product.brandName) \notin DOMAIN brandMap
         THEN RowError(index, "Brand not found in the brand list.")
    ELSE IF Falsy(product.imageUrl) THEN RowError(index, "Image URL is missing.")
    ELSE NoError

\* The callback of lines.map for one row: the product and the error it throws.
MapRow(format, line, index, hdr, sep, brandMap) ==
    LET values == Split(line, sep)
        row == RowOf(hdr, values, 1, <<>>)
        product == IF format = "create" THEN CsvProductOf(row)
                   ELSE EnrichmentCsvProductOf(row)
        error == IF format = "create"
                 THEN ValidateCsvProduct(product, index, brandMap)
                 ELSE ValidateEnrichmentCsvProduct(product, index, brandMap)
    IN  [product |-> product, error |-> error]

Returned(records) == [status |-> "returned", records |-> records, error |-> NoError]

\* Mutant of Thrown: the records mapped before the failing row are handed back.
ThrownWithPartial(records, error) ==
    [status |-> "thrown", records |-> records, error |-> error]

\* A throw leaves the caller with the error and no return value.
Thrown(records, error) == [status |-> "thrown", records |-> <<>>, error |-> error]

\* lines.map((line, index) => ...): the records, or the first throw.
RECURSIVE MapRows(_, _, _, _, _, _, _)
MapRows(format, ls, index, hdr, sep, brandMap, acc) ==
    IF index >= Len(ls) THEN Returned(acc)
    ELSE LET r == MapRow(format, ls[index + 1], index, hdr, sep, brandMap)
         IN  IF r.error # NoError THEN Thrown(acc, r.error)
             ELSE MapRows(format, ls, index + 1, hdr, sep, brandMap, Append(acc, r.product))

(***************************************************************************)
(* Inputs of the parsers: a header line and at most MaxDataLines data      *)
(* lines, joined by newlines, and the empty file.                          *)
(***************************************************************************)
Url == "https://x.com/a.jpg"

HeaderLines ==
    { <<"sku", Comma, "type", Comma, "brand", Comma, "imageurl">>,
      <<Space, "SKU", Space, Comma, "Type", Comma, "BRAND", Comma, "ImageUrl">>,
      <<"sku", Tab, "type", Tab, "brand", Tab, "imageurl">>,
      <<"sku", Comma, "type", Comma, "imageurl">>,
      <<"sku", Comma, "type", Comma, "brand", Comma, "imageurl", Comma, "model">>,
      <<"id", Comma, "sku", Comma, "name", Comma, "type", Comma, "brand", Comma, "imageurl">>,
      <<"sku", Tab, "type", Comma, "brand">>,
      <<"sku", Tab, "type", Tab, "brand", Comma, "imageurl">>,
      <<"sku", Comma, "type", Comma, "brand", Tab, "imageurl">>,
      <<"sku", Comma, "type", Comma, "brand", Comma, "details", Comma, "imageurl">>,
      <<"sku">> }

DataLines ==
    { <<"A1", Comma, "watch", Comma, "Acme", Comma, Url>>,
      <<"A2", Comma, "Glasses", Comma, "ACME", Comma, Quote, Url, Quote>>,
      <<"A3", Comma, "necklace", Comma, "Acme", Comma, Url>>,
      <<Comma, "watch", Comma, "Acme", Comma, Url>>,
      <<"A1", Comma, "watch", Comma, "Zed", Comma, Url>>,
      <<"A2", Comma, "watch", Comma, "Acme", Comma>>,
      <<"A3", Comma, "watch", Comma, "Acme">>,
      <<>>,
      <<Space, Comma, "watch", Comma, Space, "Acme", Space, Comma, Url>>,
      <<"A1", Tab, "GLASSES", Tab, "Casio", Tab, Url>>,
      <<"A1", Comma, "watch", Comma, Comma, Url>>,
      <<"A1", Comma, "watch", Comma, "Acme", Comma, "thin", Comma, Space, "light", Comma, Url>>,
      <<"1", Comma, "A1", Comma, "N1", Comma, "watch", Comma, "Acme", Comma, Url>>,
      <<Comma, "A1", Comma, "N1", Comma, "watch", Comma, "Acme", Comma, Url>>,
      <<"2", Comma, "A2", Comma, Comma, "Watch", Comma, "Casio", Comma, Url>>,
      <<"3", Comma, "A3", Comma, "N1", Comma, "necklace", Comma, "Casio", Comma, Url>> }

Contents ==
    {<<>>} \cup
    {Join(<<h>> \o ds, Newline) : h \in HeaderLines, ds \in SeqsUpTo(DataLines, MaxDataLines)}

\* The brand list the application passes to both parsers.
BRANDS == <<[id |-> 5, name |-> <<"Acme">>], [id |-> 7, name |-> <<"Casio">>]>>

NoResult == [status |-> "none", records |-> <<>>, error |-> NoError]

InitParse ==
    /\ csvFormat \in {"create", "enrichment"}
    /\ content \in Contents
    /\ brands = BRANDS
    /\ parsePc = "start"
    /\ rawLines = <<>>
    /\ separator = Comma
    /\ header = <<>>
    /\ lines = <<>>
    /\ parseResult = NoResult
    /\ TreeIdle
    /\ GenIdle
    /\ BulkIdle
    /\ SkuIdle

(***************************************************************************)
(* parseCsv and parseEnrichmentCsv, statement by statement.  The two       *)
(* functions differ in how the data rows are found, in the required        *)
(* headers and in the checks of a row.                                     *)
(***************************************************************************)
\* rawLines.length < 2: throw "CSV file must have a header row and at least
\* one data row."
ParseTooFewLines ==
    /\ parsePc = "start"
    /\ Len(SplitLines(content)) < 2
    /\ rawLines' = SplitLines(content)
    /\ parseResult' = Thrown(<<>>, [kind |-> "too few lines"])
    /\ parsePc' = "thrown"
    /\ UNCHANGED <<csvFormat, content, brands, separator, header, lines, treeVars, genVars, bulkVars, skuVars>>

ParseSplitLines ==
    /\ parsePc = "start"
    /\ Len(SplitLines(content)) >= 2
    /\ rawLines' = SplitLines(content)
    /\ parsePc' = "split"
    /\ UNCHANGED <<csvFormat, content, brands, separator, header, lines, parseResult,
                   treeVars, genVars, bulkVars, skuVars>>

ParseHeader ==
    /\ parsePc = "split"
    /\ separator' = detectSeparator(rawLines[1])
    /\ header' = HeaderOf(rawLines[1], detectSeparator(rawLines[1]))
    /\ parsePc' = "header"
    /\ UNCHANGED <<csvFormat, content, brands, rawLines, lines, parseResult, treeVars, genVars, bulkVars, skuVars>>

\* parseCsv: the rows are reassembled from the physical lines.
ParseReassemble ==
    /\ parsePc = "header"
    /\ csvFormat = "create"
    /\ lines' = Reassemble(Tail(rawLines), <<>>, separator, Len(header))
    /\ parsePc' = "rows"
    /\ UNCHANGED <<csvFormat, content, brands, rawLines, separator, header, parseResult,
                   treeVars, genVars, bulkVars, skuVars>>

\* parseEnrichmentCsv: the rows are the non-blank physical lines.
ParseFilterBlank ==
    /\ parsePc = "header"
    /\ csvFormat = "enrichment"
    /\ lines' = NonBlankLines(Tail(rawLines))
    /\ parsePc' = "rows"
    /\ UNCHANGED <<csvFormat, content, brands, rawLines, separator, header, parseResult,
                   treeVars, genVars, bulkVars, skuVars>>

RequiredFor(format) ==
    IF format = "create" THEN requiredHeaders ELSE requiredEnrichmentHeaders

\* missingHeaders.length > 0: throw "CSV is missing required headers: ..."
ParseMissingHeaders ==
    /\ parsePc = "rows"
    /\ missingHeaders(RequiredFor(csvFormat), header) # <<>>
    /\ parseResult' = Thrown(<<>>, [kind |-> "missing headers",
                                   missing |-> missingHeaders(RequiredFor(csvFormat), header)])
    /\ parsePc' = "thrown"
    /\ UNCHANGED <<csvFormat, content, brands, rawLines, separator, header, lines,
                   treeVars, genVars, bulkVars, skuVars>>

\* return lines.map(...): every row passed its checks
ParseReturn ==
    /\ parsePc = "rows"
    /\ missingHeaders(RequiredFor(csvFormat), header) = <<>>
    /\ LET r == MapRows(csvFormat, lines, 0, header, separator, BrandMapOf(brands, <<>>), <<>>)
       IN  /\ r.status = "returned"
           /\ parseResult' = r
    /\ parsePc' = "returned"
    /\ UNCHANGED <<csvFormat, content, brands, rawLines, separator, header, lines,
                   treeVars, genVars, bulkVars, skuVars>>

\* lines.map(...): a row threw
ParseRowError ==
    /\ parsePc = "rows"
    /\ missingHeaders(RequiredFor(csvFormat), header) = <<>>
    /\ LET r == MapRows(csvFormat, lines, 0, header, separator, BrandMapOf(brands, <<>>), <<>>)
       IN  /\ r.status = "thrown"
           /\ parseResult' = r
    /\ parsePc' = "thrown"
    /\ UNCHANGED <<csvFormat, content, brands, rawLines, separator, header, lines,
                   treeVars, genVars, bulkVars, skuVars>>

NextParse ==
    \/ ParseTooFewLines
    \/ ParseSplitLines
    \/ ParseHeader
    \/ ParseReassemble
    \/ ParseFilterBlank
    \/ ParseMissingHeaders
    \/ ParseReturn
    \/ ParseRowError

SpecParse == InitParse /\ [][NextParse]_vars

(***************************************************************************)
(* Properties of the parsers                                               *)
(***************************************************************************)
ParseFinished == parsePc \in {"returned", "thrown"}

\* The parser got past the line count: separator and header are set.
HeaderParsed == parsePc \in {"header", "rows", "returned", "thrown"} /\ Len(rawLines) >= 2

\* The parser got to lines.map: it neither lacked lines nor headers.
RowsMapped ==
    ParseFinished /\ parseResult.error.kind \notin {"too few lines", "missing headers"}

Occurrences(s, c) == Cardinality({i \in DOMAIN s : s[i] = c})

\* C5: detectSeparator returns the tab if and only if the header line holds at
\* least one tab and strictly more tabs than commas; otherwise (equal counts,
\* neither character) it returns the comma.
C5_TabIffStrictlyMoreTabs ==
    HeaderParsed =>
        LET tabs == Occurrences(rawLines[1], Tab)
            commas == Occurrences(rawLines[1], Comma)
        IN  /\ separator = Tab <=> (tabs > 0 /\ tabs > commas)
            /\ separator # Tab => separator = Comma

\* C5 witness: a header line with as many tabs as commas, at least one of
\* each, for which the comma was chosen.
C5_Witness ==
    /\ HeaderParsed
    /\ Occurrences(rawLines[1], Tab) = Occurrences(rawLines[1], Comma)
    /\ Occurrences(rawLines[1], Tab) > 0
    /\ separator = Comma

\* The header of the uploaded text as the claims speak of it: the tokens of
\* its first line, trimmed and lower-cased.
FileHeader ==
    LET first == SplitLines(content)[1]
    IN  HeaderOf(first, detectSeparator(first))

CreateRequired == {<<"sku">>, <<"type">>, <<"brand">>, <<"imageurl">>}

AbsentRequired == {c \in CreateRequired : c \notin Range(FileHeader)}

FailedMissingHeaders ==
    parsePc = "thrown" /\ parseResult.error.kind = "missing headers"

\* C6 (as stated): parseCsv fails with the missing-required-headers error
\* exactly when one of sku, type, brand, imageurl is absent from the trimmed,
\* lower-cased header; the message lists the absent columns; a header of only
\* these four columns is accepted.
C6_MissingHeadersExactlyWhenAbsent ==
    ParseFinished /\ csvFormat = "create" =>
        /\ FailedMissingHeaders <=> AbsentRequired # {}
        /\ FailedMissingHeaders => Range(parseResult.error.missing) = AbsentRequired
        /\ Range(FileHeader) = CreateRequired => ~FailedMissingHeaders

\* C6 (amended): for a text of at least two lines, parseCsv fails with the
\* missing-required-headers error exactly when one of sku, type, brand,
\* imageurl is absent from the trimmed, lower-cased header, and the message
\* lists the absent columns; a header of only these four columns is accepted.
\* A text of fewer than two lines fails with the header-and-data-row error
\* whatever its header holds.
C6_MissingHeadersWhenTwoLines ==
    ParseFinished /\ csvFormat = "create" =>
        /\ FailedMissingHeaders <=> (Len(SplitLines(content)) >= 2 /\ AbsentRequired # {})
        /\ FailedMissingHeaders => Range(parseResult.error.missing) = AbsentRequired
        /\ Range(FileHeader) = CreateRequired => ~FailedMissingHeaders
        /\ Len(SplitLines(content)) < 2 => parseResult.error.kind = "too few lines"

\* C6 witness: a header of exactly the four required columns, written with
\* blanks and capitals, was accepted and the rows were mapped.
C6_Witness ==
    /\ csvFormat = "create"
    /\ parsePc = "returned"
    /\ Len(content) > 0
    /\ Head(content) = Space
    /\ "BRAND" \in Range(rawLines[1])
    /\ Range(header) = CreateRequired
    /\ Len(header) = 4

\* What the callback of lines.map makes of row i.
RowOutcome(i) ==
    MapRow(csvFormat, lines[i], i - 1, header, separator, BrandMapOf(brands, <<>>))

NonEmptyText(v) == v # Undefined /\ Len(v) > 0

\* The validity the claims ask of a record.
ValidRecord(rec) ==
    /\ NonEmptyText(rec.sku)
    /\ rec.productType \in {<<"watch">>, <<"glasses">>}
    /\ \E i \in DOMAIN brands : toLowerCase(brands[i].name) = toLowerCase(rec.brandName)
    /\ NonEmptyText(rec.imageUrl)

\* Validity of a row for the parser that runs: the enrichment format also
\* asks for an id and a name.
ValidRow(i) ==
    /\ ValidRecord(RowOutcome(i).product)
    /\ csvFormat = "enrichment" =>
           /\ NonEmptyText(RowOutcome(i).product.id)
           /\ NonEmptyText(RowOutcome(i).product.name)

InvalidRows == {i \in DOMAIN lines : ~ValidRow(i)}

FirstInvalidRow == CHOOSE i \in InvalidRows : \A j \in InvalidRows : i <= j

\* The type column of row i as the file has it, trimmed and without quotes.
TypeCell(i) ==
    LET k == CHOOSE j \in DOMAIN header : header[j] = <<"type">>
    IN  StripQuotes(Trim(Split(lines[i], separator)[k]))

\* C7: every record parseCsv or parseEnrichmentCsv returns is valid (sku not
\* empty, productType the lower-case 'watch' or 'glasses' whatever the case of
\* the row's type, brandName equal up to case to a name of the brand list,
\* imageUrl not empty), there is one record per row, and a row that fails one
\* of these makes the parse throw.
C7_ReturnedRecordsValid ==
    /\ parsePc = "returned" =>
           /\ Len(parseResult.records) = Len(lines)
           /\ \A i \in DOMAIN parseResult.records :
                  /\ ValidRecord(parseResult.records[i])
                  /\ parseResult.records[i].productType = toLowerCase(TypeCell(i))
    /\ RowsMapped /\ (\E i \in DOMAIN lines : ~ValidRecord(RowOutcome(i).product)) =>
           parsePc = "thrown" /\ parseResult.error.kind = "row"

\* C7 witness: two records returned, one from a row whose type and brand are
\* not written in the case of the list ("Glasses", "ACME").
C7_Witness ==
    /\ parsePc = "returned"
    /\ Len(parseResult.records) = 2
    /\ \E i \in DOMAIN parseResult.records :
           /\ TypeCell(i) = <<"Glasses">>
           /\ parseResult.records[i].brandName = <<"ACME">>

\* C8: parsing is all-or-nothing.  When some row fails validation the parser
\* throws, no record is returned (not those of the valid rows before it), and
\* the error is the one of the first invalid row; when no row fails it returns
\* one record per row.
C8_AllOrNothing ==
    RowsMapped =>
        IF InvalidRows # {}
        THEN /\ parseResult.status = "thrown"
             /\ parseResult.records = <<>>
             /\ parseResult.error = RowOutcome(FirstInvalidRow).error
             /\ parseResult.error.kind = "row"
        ELSE /\ parseResult.status = "returned"
             /\ Len(parseResult.records) = Len(lines)

\* C8 witness: the second row is the first invalid one, after a valid row,
\* and parseCsv threw without a record.
C8_Witness ==
    /\ csvFormat = "create"
    /\ RowsMapped
    /\ Len(lines) = 2
    /\ InvalidRows = {2}
    /\ parseResult.status = "thrown"
    /\ parseResult.records = <<>>

\* C9: a validation failure of a row is thrown as "Row <n>: <reason>" with the
\* header counted as line 1: for the k-th data row, n = k + 1.
C9_RowNumberIsIndexPlusOne ==
    RowsMapped /\ parseResult.status = "thrown" =>
        /\ parseResult.error.kind = "row"
        /\ InvalidRows # {}
        /\ parseResult.error.row = FirstInvalidRow + 1

\* C9 witness: parseEnrichmentCsv threw for its second data row, as Row 3.
C9_Witness ==
    /\ csvFormat = "enrichment"
    /\ RowsMapped
    /\ parseResult.status = "thrown"
    /\ FirstInvalidRow = 2
    /\ parseResult.error.row = 3

(***************************************************************************)
(* utils/csv: generateCsvContent                                           *)
(*                                                                         *)
(* An optional number (number | null) is <<>> for null and <<n>> for n.    *)
(***************************************************************************)
baseHeaders ==
    << <<"SKU">>, <<"Product", Space, "Name">>, <<"Primary", Space, "Category", Space, "ID">>,
       <<"Primary", Space, "Category", Space, "Name">>, <<"Title", Space, "Tag">>,
       <<"Meta", Space, "Description">>, <<"Short", Space, "Description">>,
       <<"Long", Space, "Description">>, <<"Product", Space, "Type">>,
       <<"Brand", Space, "ID">>, <<"Brand", Space, "Name">>, <<"Model">>, <<"Price">>,
       <<"Image", Space, "Source">>, <<"Suggested", Space, "Tags">>,
       <<"Category", Space, "IDs">>, <<"Category", Space, "Names">>,
       <<"Attribute", Space, "IDs">>, <<"Attribute", Space, "Names">>,
       <<"Variant", Space, "Color">>, <<"Variant", Space, "Size">>,
       <<"Variant", Space, "Other">>, <<"Reviewed">> >>

enrichmentHeaders == << <<"Original", Space, "ID">>, <<"Original", Space, "Name">> >>

\* Mutant of hasEnrichmentData: only originalId is looked at.
hasOriginalId(ps) == \E i \in DOMAIN ps : ~Falsy(ps[i].originalId)

\* products.some(p => p.originalId || p.originalName)
hasEnrichmentData(ps) ==
    \E i \in DOMAIN ps : ~Falsy(ps[i].originalId) \/ ~Falsy(ps[i].originalName)

headersOf(ps) ==
    IF hasEnrichmentData(ps) THEN enrichmentHeaders \o baseHeaders ELSE baseHeaders

\* Mutant of DoubleQuotes: the quotes inside a field are left single.
KeepQuotes(str) == str

\* str.replace(/"/g, '""')
RECURSIVE DoubleQuotes(_)
DoubleQuotes(str) ==
    IF str = <<>> THEN <<>>
    ELSE (IF Head(str) = Quote THEN <<Quote, Quote>> ELSE <<Head(str)>>)
         \o DoubleQuotes(Tail(str))

\* /[",\n]/.test(str)
NeedsQuoting(str) == \E i \in DOMAIN str : str[i] \in {Quote, Comma, Newline}

escapeCsvField(field) ==
    IF field = Undefined THEN <<>>
    ELSE IF NeedsQuoting(field) THEN <<Quote>> \o DoubleQuotes(field) \o <<Quote>>
    ELSE field

\* String(n) of a number
NumberText(n) == <<ToString(n)>>

\* An optional number as the field escapeCsvField receives: null, or the
\* number, which String() writes in decimal.
OptionalNumber(v) == IF v = <<>> THEN Undefined ELSE NumberText(v[1])

\* Array.prototype.join on texts, with a separator of several characters
RECURSIVE JoinText(_, _)
JoinText(parts, sep) ==
    IF parts = <<>> THEN <<>>
    ELSE IF Len(parts) = 1 THEN parts[1]
    ELSE parts[1] \o sep \o JoinText(Tail(parts), sep)

SemicolonSpace == <<";", Space>>

\* Mutant of NameOf: an id without a match is written as a placeholder name.
NameOfOrUnknown(list, id) ==
    IF \E i \in DOMAIN list : list[i].id = id
    THEN list[CHOOSE i \in DOMAIN list :
                  list[i].id = id /\ \A j \in DOMAIN list : list[j].id = id => j <= i].name
    ELSE <<"Unknown">>

\* new Map(list.map(x => [x.id, x.name])).get(id) || ''
RECURSIVE NameOf(_, _)
NameOf(list, id) ==
    IF list = <<>> THEN <<>>
    ELSE IF list[Len(list)].id = id THEN list[Len(list)].name
    ELSE NameOf(SubSeq(list, 1, Len(list) - 1), id)

\* ids.map(id => map.get(id) || '').join('; ')
NamesOf(list, ids) == JoinText([i \in DOMAIN ids |-> NameOf(list, ids[i])], SemicolonSpace)

\* ids.join('; ')
IdsText(ids) == JoinText([i \in DOMAIN ids |-> NumberText(ids[i])], SemicolonSpace)

\* id ? map.get(id) || '' : ''
OptionalNameOf(list, v) == IF v = <<>> \/ v = <<0>> THEN <<>> ELSE NameOf(list, v[1])

\* Mutant of PriceOf: the price of the row is the variant's, blank or not.
VariantPriceOnly(vPrice, product) == vPrice

\* vPrice || product.price
PriceOf(vPrice, product) == IF Falsy(vPrice) THEN product.price ELSE vPrice

createBaseRowData(product, allCategories, allBrands, allAttributes, vSku, vColor, vSize, vPrice, vOther) ==
    << escapeCsvField(vSku),
       escapeCsvField(product.productName),
       escapeCsvField(OptionalNumber(product.primaryCategoryId)),
       escapeCsvField(OptionalNameOf(allCategories, product.primaryCategoryId)),
       escapeCsvField(product.titleTag),
       escapeCsvField(product.metaDescription),
       escapeCsvField(product.shortDescription),
       escapeCsvField(product.longDescription),
       escapeCsvField(product.productType),
       escapeCsvField(OptionalNumber(product.brandId)),
       escapeCsvField(OptionalNameOf(allBrands, product.brandId)),
       escapeCsvField(product.model),
       escapeCsvField(PriceOf(vPrice, product)),
       escapeCsvField(product.imageSource),
       escapeCsvField(product.suggestedTags),
       escapeCsvField(IdsText(product.categoryIds)),
       escapeCsvField(NamesOf(allCategories, product.categoryIds)),
       escapeCsvField(IdsText(product.attributeIds)),
       escapeCsvField(NamesOf(allAttributes, product.attributeIds)),
       escapeCsvField(vColor),
       escapeCsvField(vSize),
       escapeCsvField(vOther),
       escapeCsvField(IF product.isReviewed THEN <<"TRUE">> ELSE <<"FALSE">>) >>

\* Mutant of RowFields: the provenance pair is put in front of the rows of the
\* products that have provenance themselves.
RowFieldsOwnProvenance(product, enriched, rowData) ==
    IF ~Falsy(product.originalId) \/ ~Falsy(product.originalName)
    THEN <<escapeCsvField(product.originalId), escapeCsvField(product.originalName)>>
         \o rowData
    ELSE rowData

\* The fields of one exported row, with the provenance pair in front when the
\* batch has enrichment data.
RowFields(product, enriched, rowData) ==
    IF enriched
    THEN <<escapeCsvField(product.originalId), escapeCsvField(product.originalName)>>
         \o rowData
    ELSE rowData

\* Mutant of ProductRows: the master row is pushed before the variant rows.
ProductRowsWithParent(product, enriched, allCategories, allBrands, allAttributes) ==
    << RowFields(product, enriched,
           createBaseRowData(product, allCategories, allBrands, allAttributes,
               product.sku, <<>>, <<>>, product.price, <<>>)) >>
    \o [v \in DOMAIN product.variants |->
            RowFields(product, enriched,
                createBaseRowData(product, allCategories, allBrands, allAttributes,
                    product.variants[v].sku, product.variants[v].color,
                    product.variants[v].size, product.variants[v].price,
                    product.variants[v].other))]

\* The rows pushed for one product: one per variant, or the master row.
ProductRows(product, enriched, allCategories, allBrands, allAttributes) ==
    IF Len(product.variants) > 0
    THEN [v \in DOMAIN product.variants |->
             RowFields(product, enriched,
                 createBaseRowData(product, allCategories, allBrands, allAttributes,
                     product.variants[v].sku, product.variants[v].color,
                     product.variants[v].size, product.variants[v].price,
                     product.variants[v].other))]
    ELSE << RowFields(product, enriched,
                createBaseRowData(product, allCategories, allBrands, allAttributes,
                    product.sku, <<>>, <<>>, product.price, <<>>)) >>

\* products.forEach(...): the field lists of csvRows, in order
RECURSIVE csvRowsOf(_, _, _, _, _)
csvRowsOf(ps, enriched, allCategories, allBrands, allAttributes) ==
    IF ps = <<>> THEN <<>>
    ELSE ProductRows(Head(ps), enriched, allCategories, allBrands, allAttributes)
         \o csvRowsOf(Tail(ps), enriched, allCategories, allBrands, allAttributes)

\* rowData.join(',') for each row
JoinedRows(rows) == [i \in DOMAIN rows |-> Join(rows[i], Comma)]

\* Mutant of EmptyExport: an empty list is exported as the header row alone.
HeaderOnlyExport == Join(baseHeaders, Comma)

\* if (products.length === 0) return '';
EmptyExport == <<>>

generateCsvContent(ps, allCategories, allBrands, allAttributes) ==
    IF Len(ps) = 0 THEN EmptyExport
    ELSE Join(<<Join(headersOf(ps), Comma)>>
              \o JoinedRows(csvRowsOf(ps, hasEnrichmentData(ps),
                                      allCategories, allBrands, allAttributes)),
              Newline)

(***************************************************************************)
(* Inputs of the export: the reference lists of the application and lists  *)
(* of at most MaxProducts products drawn from a pool that varies what the  *)
(* export reads: special characters, provenance, variants, blank variant   *)
(* prices, ids without a match in the reference lists, null ids.           *)
(***************************************************************************)
CATEGORIES ==
    <<[id |-> 1, name |-> <<"Watches">>, parent |-> 0],
      [id |-> 2, name |-> <<"Men's">>, parent |-> 1]>>

ATTRIBUTES == <<[id |-> 10, name |-> <<"Steel">>], [id |-> 11, name |-> <<"Leather">>]>>

PlainProduct ==
    [sku |-> <<"WAT-AC-SUB-1234">>, productName |-> <<"Acme", Space, "Diver">>,
     primaryCategoryId |-> <<2>>, titleTag |-> <<"Title">>,
     metaDescription |-> <<"Meta">>, shortDescription |-> <<"Short">>,
     longDescription |-> <<"Long">>, productType |-> <<"watch">>,
     brandId |-> <<5>>, model |-> <<"Diver">>, price |-> <<"500">>,
     imageSource |-> <<Url>>, suggestedTags |-> <<"steel">>,
     categoryIds |-> <<1, 2>>, attributeIds |-> <<10>>, isReviewed |-> FALSE,
     originalId |-> Undefined, originalName |-> Undefined, variants |-> <<>>]

BlackVariant ==
    [id |-> <<"v1">>, sku |-> <<"WAT-AC-SUB-1234-BLK">>, color |-> <<"Black">>,
     size |-> <<>>, price |-> <<"550">>, other |-> <<>>]

SilverVariant ==
    [id |-> <<"v2">>, sku |-> <<"WAT-AC-SUB-1234-SIL">>, color |-> <<"Silver">>,
     size |-> <<"42">>, price |-> <<>>, other |-> <<"gift", Comma, Space, "box">>]

ProductPool ==
    { PlainProduct,
      [PlainProduct EXCEPT !.productName = <<"Diver", Comma, Space, Quote, "Pro", Quote>>,
                           !.isReviewed = TRUE],
      [PlainProduct EXCEPT !.longDescription = <<"Line", Newline, "Line">>,
                           !.model = <<"5", Quote>>,
                           !.brandId = <<>>, !.primaryCategoryId = <<>>],
      [PlainProduct EXCEPT !.variants = <<BlackVariant, SilverVariant>>],
      [PlainProduct EXCEPT !.variants = <<SilverVariant>>, !.originalId = <<"101">>,
                           !.originalName = <<"Old", Space, "Name">>],
      [PlainProduct EXCEPT !.originalName = <<"Old", Comma, "Name">>],
      [PlainProduct EXCEPT !.categoryIds = <<1, 99>>, !.attributeIds = <<98>>,
                           !.brandId = <<8>>, !.primaryCategoryId = <<99>>],
      [PlainProduct EXCEPT !.categoryIds = <<>>, !.attributeIds = <<>>,
                           !.price = <<>>, !.variants = <<BlackVariant>>] }

InitGen ==
    /\ products \in SeqsUpTo(ProductPool, MaxProducts)
    /\ genPc = "ready"
    /\ csvOutput = <<>>
    /\ TreeIdle
    /\ ParseIdle
    /\ BulkIdle
    /\ SkuIdle

GenerateCsvContent ==
    /\ genPc = "ready"
    /\ csvOutput' = generateCsvContent(products, CATEGORIES, BRANDS, ATTRIBUTES)
    /\ genPc' = "done"
    /\ UNCHANGED <<products, treeVars, parseVars, bulkVars, skuVars>>

NextGen == GenerateCsvContent

SpecGen == InitGen /\ [][NextGen]_vars

(***************************************************************************)
(* Properties of the export                                                *)
(***************************************************************************)
\* The text up to the first newline.
FirstLine(text) == Split(text, Newline)[1]

HeaderRows == {Join(baseHeaders, Comma), Join(enrichmentHeaders \o baseHeaders, Comma)}

\* The number of lines of the text that are a header row.
HeaderRowCount(text) ==
    Cardinality({i \in DOMAIN Split(text, Newline) : Split(text, Newline)[i] \in HeaderRows})

\* C10: generateCsvContent returns the empty string, without a header row,
\* when and only when the product list is empty; for a non-empty list the text
\* starts with a header row and holds exactly one.
C10_EmptyExportIffNoProducts ==
    genPc = "done" =>
        /\ csvOutput = <<>> <=> products = <<>>
        /\ products = <<>> => HeaderRowCount(csvOutput) = 0
        /\ products # <<>> =>
               /\ FirstLine(csvOutput) \in HeaderRows
               /\ HeaderRowCount(csvOutput) = 1

\* C10 witness: the export of the empty list has run and returned no text.
C10_Witness ==
    /\ genPc = "done"
    /\ products = <<>>
    /\ csvOutput = <<>>

(***************************************************************************)
(* Reading the export back, as a CSV reader does: a quote opens or closes  *)
(* a quoted stretch, and a separator counts only outside one.              *)
(***************************************************************************)
\* The positions of the separators that stand outside quotes: those with an
\* even number of quotes before them.
Cuts(text, sep) ==
    {k \in DOMAIN text :
        /\ text[k] = sep
        /\ Cardinality({i \in 1..(k - 1) : text[i] = Quote}) % 2 = 0}

\* The n-th cut in increasing order; 0 before the first and the length plus
\* one after the last.
CutAt(cuts, len, n) ==
    IF n = 0 THEN 0
    ELSE IF n > Cardinality(cuts) THEN len + 1
    ELSE CHOOSE k \in cuts : Cardinality({c \in cuts : c < k}) = n - 1

SplitOutsideQuotes(text, sep) ==
    LET cuts == Cuts(text, sep)
    IN  [n \in 1..(Cardinality(cuts) + 1) |->
            SubSeq(text, CutAt(cuts, Len(text), n - 1) + 1, CutAt(cuts, Len(text), n) - 1)]

\* The records of a text, and the raw fields of a record.
CsvRecords(text) == IF text = <<>> THEN <<>> ELSE SplitOutsideQuotes(text, Newline)

CsvFields(record) == SplitOutsideQuotes(record, Comma)

\* Every pair of quotes becomes one quote.
RECURSIVE Undouble(_)
Undouble(str) ==
    IF str = <<>> THEN <<>>
    ELSE IF Head(str) = Quote /\ Len(str) >= 2 /\ str[2] = Quote
         THEN <<Quote>> \o Undouble(Tail(Tail(str)))
    ELSE <<Head(str)>> \o Undouble(Tail(str))

IsWrapped(raw) == Len(raw) >= 2 /\ Head(raw) = Quote /\ raw[Len(raw)] = Quote

Unwrapped(raw) == SubSeq(raw, 2, Len(raw) - 1)

\* The value a reader takes from a raw field.
Unescape(raw) == IF IsWrapped(raw) THEN Undouble(Unwrapped(raw)) ELSE raw

\* The header fields and the data rows (lists of raw fields) of a text.
HeaderOfText(text) == CsvFields(CsvRecords(text)[1])

DataRowsOfText(text) ==
    LET records == CsvRecords(text)
    IN  [r \in 1..(Len(records) - 1) |-> CsvFields(records[r + 1])]

ExportHeader == HeaderOfText(csvOutput)

DataRows == DataRowsOfText(csvOutput)

\* The position of a column in a header.
ColumnOf(hdr, name) == CHOOSE k \in DOMAIN hdr : hdr[k] = name

\* The value read from a column of a data row.
Cell(hdr, row, name) == Unescape(row[ColumnOf(hdr, name)])

\* max(1, number of variants)
RowCount(product) == IF Len(product.variants) >= 1 THEN Len(product.variants) ELSE 1

RECURSIVE SumRows(_)
SumRows(ps) == IF ps = <<>> THEN 0 ELSE RowCount(Head(ps)) + SumRows(Tail(ps))

\* The data row of variant j (or of the bare product, j = 1) of product i.
DataRowOf(i, j) == SumRows(SubSeq(products, 1, i - 1)) + j

Exported == genPc = "done" /\ products # <<>>

\* C11: an export has one data row per variant of a product that has variants
\* and one data row for a product that has none, so sum of max(1, variants)
\* data rows in all; the rows of a product with variants carry the variants'
\* SKUs in order, with no row for the bare parent.
C11_RowsPerProduct ==
    Exported =>
        LET hdr == ExportHeader
            rows == DataRows
        IN  /\ Len(rows) = SumRows(products)
            /\ \A i \in DOMAIN products :
                   LET p == products[i]
                   IN  IF Len(p.variants) >= 1
                       THEN \A j \in DOMAIN p.variants :
                                Cell(hdr, rows[DataRowOf(i, j)], <<"SKU">>) = p.variants[j].sku
                       ELSE Cell(hdr, rows[DataRowOf(i, 1)], <<"SKU">>) = p.sku

\* C11 witness: a product with two variants and a product with none were
\* exported in three data rows.
C11_Witness ==
    /\ Exported
    /\ Len(products) = 2
    /\ Len(products[1].variants) = 2
    /\ Len(products[2].variants) = 0
    /\ Len(DataRows) = 3

\* What a reader finds for a value: nothing for a value that was never set.
TextOf(v) == IF v = Undefined THEN <<>> ELSE v

\* The columns that hold a text field of the product as it is.
SharedTextColumns ==
    { [column |-> <<"Product", Space, "Name">>, field |-> "productName"],
      [column |-> <<"Title", Space, "Tag">>, field |-> "titleTag"],
      [column |-> <<"Meta", Space, "Description">>, field |-> "metaDescription"],
      [column |-> <<"Short", Space, "Description">>, field |-> "shortDescription"],
      [column |-> <<"Long", Space, "Description">>, field |-> "longDescription"],
      [column |-> <<"Product", Space, "Type">>, field |-> "productType"],
      [column |-> <<"Model">>, field |-> "model"],
      [column |-> <<"Image", Space, "Source">>, field |-> "imageSource"],
      [column |-> <<"Suggested", Space, "Tags">>, field |-> "suggestedTags"] }

ProvenanceColumns ==
    { [column |-> <<"Original", Space, "ID">>, field |-> "originalId"],
      [column |-> <<"Original", Space, "Name">>, field |-> "originalName"] }

\* The columns computed from the product's ids and flag.
SharedComputedColumns ==
    { <<"Primary", Space, "Category", Space, "ID">>,
      <<"Primary", Space, "Category", Space, "Name">>,
      <<"Brand", Space, "ID">>, <<"Brand", Space, "Name">>,
      <<"Category", Space, "IDs">>, <<"Category", Space, "Names">>,
      <<"Attribute", Space, "IDs">>, <<"Attribute", Space, "Names">>,
      <<"Reviewed">> }

\* The export of the product alone, without its variants.
BareExport(product) ==
    generateCsvContent(<<[product EXCEPT !.variants = <<>>]>>, CATEGORIES, BRANDS, ATTRIBUTES)

\* C12: in the row of a variant, the shared columns hold the parent product's
\* values (the text fields as they are, the computed columns as in the row of
\* the parent exported alone, the provenance pair when the header has it), the
\* SKU, color, size and other columns hold the variant's values, and the Price
\* column holds the variant's price when it is not empty and the parent's
\* price when it is.
C12_VariantRowFields ==
    Exported =>
        LET hdr == ExportHeader
            rows == DataRows
        IN  \A i \in DOMAIN products : \A j \in DOMAIN products[i].variants :
                LET p == products[i]
                    v == p.variants[j]
                    row == rows[DataRowOf(i, j)]
                    bare == BareExport(p)
                    bareHdr == HeaderOfText(bare)
                    bareRow == DataRowsOfText(bare)[1]
                IN  /\ Len(row) = Len(hdr)
                    /\ \A c \in SharedTextColumns : Cell(hdr, row, c.column) = p[c.field]
                    /\ \A c \in SharedComputedColumns :
                           Cell(hdr, row, c) = Cell(bareHdr, bareRow, c)
                    /\ \A c \in ProvenanceColumns :
                           (\E k \in DOMAIN hdr : hdr[k] = c.column) =>
                               Cell(hdr, row, c.column) = TextOf(p[c.field])
                    /\ Cell(hdr, row, <<"SKU">>) = v.sku
                    /\ Cell(hdr, row, <<"Variant", Space, "Color">>) = v.color
                    /\ Cell(hdr, row, <<"Variant", Space, "Size">>) = v.size
                    /\ Cell(hdr, row, <<"Variant", Space, "Other">>) = v.other
                    /\ Cell(hdr, row, <<"Price">>) =
                           (IF v.price # <<>> THEN v.price ELSE p.price)

\* C12 witness: a product with a priced variant and a variant without a price
\* was exported; the second row holds the parent's price.
C12_Witness ==
    /\ Exported
    /\ Len(products) = 1
    /\ Len(products[1].variants) = 2
    /\ products[1].variants[1].price = <<"550">>
    /\ products[1].variants[2].price = <<>>
    /\ Cell(ExportHeader, DataRows[1], <<"Price">>) = <<"550">>
    /\ Cell(ExportHeader, DataRows[2], <<"Price">>) = <<"500">>
    /\ Cell(ExportHeader, DataRows[2], <<"Variant", Space, "Other">>) = <<"gift", Comma, Space, "box">>

\* The values of a product that the export hands to escapeCsvField as texts.
FieldValuesOf(product) ==
    {product[c.field] : c \in SharedTextColumns \cup ProvenanceColumns}
    \cup {product.sku, product.price}
    \cup UNION {{product.variants[j].sku, product.variants[j].color, product.variants[j].size,
                 product.variants[j].price, product.variants[j].other} :
                    j \in DOMAIN product.variants}

HasSpecial(v) == \E i \in DOMAIN v : v[i] \in {Comma, Quote, Newline}

\* raw is the written form of value v: empty for a value never set; v between
\* quotes with each inner quote doubled when v has a comma, a quote or a
\* newline; v itself otherwise.
WrittenAs(raw, v) ==
    IF v = Undefined THEN raw = <<>>
    ELSE IF HasSpecial(v)
         THEN /\ IsWrapped(raw)
              /\ MatchCount(Unwrapped(raw), Quote) = 2 * MatchCount(v, Quote)
              /\ Len(Unwrapped(raw)) = Len(v) + MatchCount(v, Quote)
              /\ Undouble(Unwrapped(raw)) = v
    ELSE raw = v

\* C13: escapeCsvField writes a value never set as the empty string, a value
\* with a comma, a quote or a newline between quotes with its quotes doubled,
\* and any other value unchanged; this holds of the function on every text of
\* the exported products and of the raw fields of the exported rows (a null id
\* is written empty), and un-doubling a wrapped field without its wrapper
\* gives the value back.
C13_FieldsEscaped ==
    Exported =>
        LET hdr == ExportHeader
            rows == DataRows
        IN  /\ \A i \in DOMAIN products : \A v \in FieldValuesOf(products[i]) :
                   WrittenAs(escapeCsvField(v), v)
            /\ \A i \in DOMAIN products : \A j \in 1..RowCount(products[i]) :
                   LET row == rows[DataRowOf(i, j)]
                   IN  /\ Len(row) = Len(hdr)
                       /\ \A c \in SharedTextColumns :
                              WrittenAs(row[ColumnOf(hdr, c.column)], products[i][c.field])
                       /\ \A c \in ProvenanceColumns :
                              (\E k \in DOMAIN hdr : hdr[k] = c.column) =>
                                  WrittenAs(row[ColumnOf(hdr, c.column)], products[i][c.field])
                       /\ \A k \in DOMAIN row :
                              HasSpecial(row[k]) => WrittenAs(row[k], Unescape(row[k]))
                       /\ products[i].brandId = <<>> =>
                              row[ColumnOf(hdr, <<"Brand", Space, "ID">>)] = <<>>
                       /\ products[i].primaryCategoryId = <<>> =>
                              row[ColumnOf(hdr, <<"Primary", Space, "Category", Space, "ID">>)] = <<>>

\* C13 witness: a name with a comma and quotes was exported between quotes
\* with its quotes doubled, next to a provenance field that was never set and
\* is written empty.
C13_Witness ==
    /\ Exported
    /\ Len(products) = 2
    /\ products[1].productName = <<"Diver", Comma, Space, Quote, "Pro", Quote>>
    /\ products[1].originalId = Undefined
    /\ products[2].originalName # Undefined
    /\ DataRows[1][ColumnOf(ExportHeader, <<"Product", Space, "Name">>)]
           = <<Quote, "Diver", Comma, Space, Quote, Quote, "Pro", Quote, Quote, Quote>>
    /\ DataRows[1][ColumnOf(ExportHeader, <<"Original", Space, "ID">>)] = <<>>

\* Some product of the list has an originalId or an originalName.
HasProvenance(ps) ==
    \E i \in DOMAIN ps :
        \/ ps[i].originalId # Undefined /\ ps[i].originalId # <<>>
        \/ ps[i].originalName # Undefined /\ ps[i].originalName # <<>>

\* C14: the header of an export starts with Original ID, Original Name when
\* and only when a product of the batch has an originalId or an originalName,
\* and the rest of the header (the whole header when it has no such pair) is
\* the 23 base columns from SKU to Reviewed in their order.
C14_ProvenanceHeaderIffProvenance ==
    Exported =>
        LET hdr == ExportHeader
            startsWithPair ==
                /\ Len(hdr) >= 2
                /\ hdr[1] = <<"Original", Space, "ID">>
                /\ hdr[2] = <<"Original", Space, "Name">>
            base == IF startsWithPair THEN SubSeq(hdr, 3, Len(hdr)) ELSE hdr
        IN  /\ startsWithPair <=> HasProvenance(products)
            /\ Len(base) = 23
            /\ base[1] = <<"SKU">>
            /\ base[13] = <<"Price">>
            /\ base[23] = <<"Reviewed">>
            /\ base = baseHeaders

\* C14 witness: a batch whose only provenance is an originalName was exported
\* with the pair in front of the 23 base columns.
C14_Witness ==
    /\ Exported
    /\ \A i \in DOMAIN products : products[i].originalId = Undefined
    /\ \E i \in DOMAIN products : products[i].originalName = <<"Old", Comma, "Name">>
    /\ Len(ExportHeader) = 25
    /\ ExportHeader[2] = <<"Original", Space, "Name">>

\* The entries of a cell written with '; ' between them.
EntriesOf(cell) ==
    LET parts == Split(cell, ";")
    IN  [k \in DOMAIN parts |->
            IF k > 1 /\ parts[k] # <<>> /\ Head(parts[k]) = Space
            THEN Tail(parts[k]) ELSE parts[k]]

IdsIn(list) == {list[k].id : k \in DOMAIN list}

\* The name the reference list gives an id, or no text when it has no match.
KnownName(list, id) ==
    IF id \in IdsIn(list) THEN (CHOOSE e \in Range(list) : e.id = id).name ELSE <<>>

IdTexts(ids) == [k \in DOMAIN ids |-> <<ToString(ids[k])>>]

KnownNames(list, ids) == [k \in DOMAIN ids |-> KnownName(list, ids[k])]

\* An id list and its names list, as the reader finds them in a row.
ListCellsAre(hdr, row, idColumn, nameColumn, list, ids) ==
    IF ids = <<>>
    THEN Cell(hdr, row, idColumn) = <<>> /\ Cell(hdr, row, nameColumn) = <<>>
    ELSE /\ EntriesOf(Cell(hdr, row, idColumn)) = IdTexts(ids)
         /\ EntriesOf(Cell(hdr, row, nameColumn)) = KnownNames(list, ids)

\* A single optional id and its name, as the reader finds them in a row.
IdCellsAre(hdr, row, idColumn, nameColumn, list, id) ==
    IF id = <<>>
    THEN Cell(hdr, row, idColumn) = <<>> /\ Cell(hdr, row, nameColumn) = <<>>
    ELSE /\ Cell(hdr, row, idColumn) = <<ToString(id[1])>>
         /\ Cell(hdr, row, nameColumn) = KnownName(list, id[1])

\* The ids written in the id columns of a row that the reference list of the
\* column does not have.
UnknownIdsWritten(hdr, row) ==
    LET written(column) == Range(EntriesOf(Cell(hdr, row, column))) \ {<<>>}
        known(list) == {<<ToString(id)>> : id \in IdsIn(list)}
    IN  (written(<<"Category", Space, "IDs">>) \ known(CATEGORIES))
        \cup (written(<<"Primary", Space, "Category", Space, "ID">>) \ known(CATEGORIES))
        \cup (written(<<"Attribute", Space, "IDs">>) \ known(ATTRIBUTES))
        \cup (written(<<"Brand", Space, "ID">>) \ known(BRANDS))

\* C15 as stated: an id of a product without a match in the reference lists
\* does not appear in the exported row.
C15_UnknownIdsAbsentFromRow ==
    Exported =>
        LET hdr == ExportHeader
            rows == DataRows
        IN  \A r \in DOMAIN rows : UnknownIdsWritten(hdr, rows[r]) = {}

\* C15 amended: the export of a product with an id that has no match in the
\* reference lists returns its text all the same; the id is written in its id
\* column like any other, and only its name is empty: an empty entry at the
\* id's position in the names list, an empty name cell for a brand or primary
\* category.
C15_UnknownIdsKeptNamesEmpty ==
    Exported =>
        LET hdr == ExportHeader
            rows == DataRows
        IN  /\ Len(rows) = SumRows(products)
            /\ \A i \in DOMAIN products : \A j \in 1..RowCount(products[i]) :
                   LET p == products[i]
                       row == rows[DataRowOf(i, j)]
                   IN  /\ ListCellsAre(hdr, row, <<"Category", Space, "IDs">>,
                              <<"Category", Space, "Names">>, CATEGORIES, p.categoryIds)
                       /\ ListCellsAre(hdr, row, <<"Attribute", Space, "IDs">>,
                              <<"Attribute", Space, "Names">>, ATTRIBUTES, p.attributeIds)
                       /\ IdCellsAre(hdr, row, <<"Brand", Space, "ID">>,
                              <<"Brand", Space, "Name">>, BRANDS, p.brandId)
                       /\ IdCellsAre(hdr, row, <<"Primary", Space, "Category", Space, "ID">>,
                              <<"Primary", Space, "Category", Space, "Name">>, CATEGORIES,
                              p.primaryCategoryId)

\* C15 witness: a product with category ids 1 and 99, attribute id 98 and
\* brand id 8 was exported: the ids are in the row and the names of 99, 98 and
\* 8 are empty.
C15_Witness ==
    /\ Exported
    /\ Len(products) = 1
    /\ products[1].categoryIds = <<1, 99>>
    /\ products[1].brandId = <<8>>
    /\ Cell(ExportHeader, DataRows[1], <<"Category", Space, "IDs">>) = <<"1", ";", Space, "99">>
    /\ Cell(ExportHeader, DataRows[1], <<"Category", Space, "Names">>) = <<"Watches", ";", Space>>
    /\ Cell(ExportHeader, DataRows[1], <<"Attribute", Space, "IDs">>) = <<"98">>
    /\ Cell(ExportHeader, DataRows[1], <<"Attribute", Space, "Names">>) = <<>>
    /\ Cell(ExportHeader, DataRows[1], <<"Brand", Space, "ID">>) = <<"8">>
    /\ Cell(ExportHeader, DataRows[1], <<"Brand", Space, "Name">>) = <<>>

(***************************************************************************)
(* The two parsers as the functions their callers see: the statements of   *)
(* the parser actions above, composed.                                     *)
(***************************************************************************)
ParseText(format, text, bs) ==
    LET raw == SplitLines(text)
    IN  IF Len(raw) < 2 THEN Thrown(<<>>, [kind |-> "too few lines"])
        ELSE LET sep == detectSeparator(raw[1])
                 hdr == HeaderOf(raw[1], sep)
                 rows == IF format = "create"
                         THEN Reassemble(Tail(raw), <<>>, sep, Len(hdr))
                         ELSE NonBlankLines(Tail(raw))
                 missing == missingHeaders(RequiredFor(format), hdr)
             IN  IF missing # <<>>
                 THEN Thrown(<<>>, [kind |-> "missing headers", missing |-> missing])
                 ELSE MapRows(format, rows, 0, hdr, sep, BrandMapOf(bs, <<>>), <<>>)

parseCsv(text, bs) == ParseText("create", text, bs)

parseEnrichmentCsv(text, bs) == ParseText("enrichment", text, bs)

(***************************************************************************)
(* utils/product-utils: generateSmartSku, character by character.  The     *)
(* random part is an argument.                                             *)
(***************************************************************************)
\* The upper-case form of the runs of the model that have lower-case letters.
UpperCaseOf ==
    [a \in {"temp", "Temp", "auto", "Acme", "Casio", "Diver"} |->
        CASE a \in {"temp", "Temp"} -> "TEMP"
          [] a = "auto" -> "AUTO"
          [] a = "Acme" -> "ACME"
          [] a = "Casio" -> "CASIO"
          [] a = "Diver" -> "DIVER"]

LowerLetters ==
    <<"a", "b", "c", "d", "e", "f", "g", "h", "i", "j", "k", "l", "m",
      "n", "o", "p", "q", "r", "s", "t", "u", "v", "w", "x", "y", "z">>

UpperLetters ==
    <<"A", "B", "C", "D", "E", "F", "G", "H", "I", "J", "K", "L", "M",
      "N", "O", "P", "Q", "R", "S", "T", "U", "V", "W", "X", "Y", "Z">>

Digits == <<"0", "1", "2", "3", "4", "5", "6", "7", "8", "9">>

\* The upper-case form of one character: of a letter with an accent too.
UpperChar(c) ==
    IF c \in Range(LowerLetters)
    THEN UpperLetters[CHOOSE k \in DOMAIN LowerLetters : LowerLetters[k] = c]
    ELSE IF c = "e'" THEN "E'" ELSE c

LowerChar(c) ==
    IF c \in Range(UpperLetters)
    THEN LowerLetters[CHOOSE k \in DOMAIN UpperLetters : UpperLetters[k] = c]
    ELSE IF c = "E'" THEN "e'" ELSE c

\* String.prototype.toUpperCase
toUpperCase(str) ==
    [i \in DOMAIN str |->
        IF str[i] \in DOMAIN UpperCaseOf THEN UpperCaseOf[str[i]] ELSE UpperChar(str[i])]

\* The characters of the runs generateSmartSku is called with.
CharsOf ==
    [a \in {"watch", "glasses", "Acme", "Casio", "Diver"} |->
        CASE a = "watch" -> <<"w", "a", "t", "c", "h">>
          [] a = "glasses" -> <<"g", "l", "a", "s", "s", "e", "s">>
          [] a = "Acme" -> <<"A", "c", "m", "e">>
          [] a = "Casio" -> <<"C", "a", "s", "i", "o">>
          [] a = "Diver" -> <<"D", "i", "v", "e", "r">>]

\* A text of runs, character by character.
RECURSIVE Spell(_)
Spell(text) ==
    IF text = <<>> \/ text = Undefined THEN text
    ELSE (IF Head(text) \in DOMAIN CharsOf THEN CharsOf[Head(text)] ELSE <<Head(text)>>)
         \o Spell(Tail(text))

\* String.prototype.includes
includes(str, sub) ==
    \E k \in 0..(Len(str) - Len(sub)) : SubSeq(str, k + 1, k + Len(sub)) = sub

\* str.substring(0, n)
substring(str, n) == SubSeq(str, 1, IF n < Len(str) THEN n ELSE Len(str))

\* str.padEnd(n, c)
padEnd(str, n, c) == str \o [k \in 1..(n - Len(str)) |-> c]

\* str.replace(/[^A-Z0-9]/g, '')
clean(str) == SelectSeq(str, LAMBDA c : c \in Range(UpperLetters) \cup Range(Digits))

\* (brandName || "XX").substring(0, 2).toUpperCase().padEnd(2, 'X')
brOf(brandName) ==
    padEnd(toUpperCase(substring(IF Falsy(brandName) THEN <<"X", "X">> ELSE brandName, 2)),
           2, "X")

\* (modelName || "PRO").substring(0, 3).toUpperCase().padEnd(3, 'X')
mdlOf(modelName) ==
    padEnd(toUpperCase(substring(IF Falsy(modelName) THEN <<"P", "R", "O">> ELSE modelName, 3)),
           3, "X")

generateSmartSku(productType, brandName, modelName, xxxx) ==
    LET type == IF Falsy(productType) THEN <<>> ELSE [k \in DOMAIN productType |-> LowerChar(productType[k])]
        cat == IF includes(type, <<"w", "a", "t", "c", "h">>) THEN <<"W", "A", "T">>
               ELSE IF includes(type, <<"g", "l", "a", "s", "s">>) THEN <<"G", "L", "A">>
               ELSE <<"P", "R", "D">>
    IN  clean(cat) \o <<"-">> \o clean(brOf(brandName)) \o <<"-">> \o clean(mdlOf(modelName))
        \o <<"-", ToString(xxxx)>>

(***************************************************************************)
(* App: the queue items and the products processBulkFile builds.  An       *)
(* optional object (result) is <<>> or <<object>>; an optional text is     *)
(* Undefined or the text.                                                  *)
(***************************************************************************)
\* newProducts = parsed.map((p, i) => ({ id: Date.now() + i, source: p,
\* status: 'pending', isReviewed: false })); ids are relative to the time of
\* the call.
BulkProductsOf(parsed) ==
    [i \in DOMAIN parsed |->
        [id |-> i - 1, source |-> parsed[i], status |-> "pending", isReviewed |-> FALSE,
         error |-> Undefined, imageFile |-> FALSE, result |-> <<>>]]

\* prev.map(p => p.id === currentId ? { ...p, status: 'processing' } : p)
MarkProcessing(prev, currentId) ==
    [k \in DOMAIN prev |->
        IF prev[k].id = currentId THEN [prev[k] EXCEPT !.status = "processing"] ELSE prev[k]]

\* prev.map(p => p.id === currentId
\*     ? { ...p, status: 'completed', result: savedProduct, imageFile } : p)
MarkCompleted(prev, currentId, savedProduct) ==
    [k \in DOMAIN prev |->
        IF prev[k].id = currentId
        THEN [prev[k] EXCEPT !.status = "completed", !.result = <<savedProduct>>,
                             !.imageFile = TRUE]
        ELSE prev[k]]

\* prev.map(p => p.id === currentId ? { ...p, status: 'error', error: e.message } : p)
MarkError(prev, currentId, message) ==
    [k \in DOMAIN prev |->
        IF prev[k].id = currentId
        THEN [prev[k] EXCEPT !.status = "error", !.error = message]
        ELSE prev[k]]

\* BRANDS.find(b => b.name.toLowerCase() === brandName.toLowerCase())?.id
BrandIdOf(brandName) ==
    IF Falsy(brandName) THEN <<>>
    ELSE LET hits == {k \in DOMAIN BRANDS : toLowerCase(BRANDS[k].name) = toLowerCase(brandName)}
         IN  IF hits = {} THEN <<>>
             ELSE <<BRANDS[CHOOSE k \in hits : \A j \in hits : k <= j].id>>

\* BRANDS.find(b => b.id === result.brandId)?.name
BrandNameOf(brandId) ==
    IF brandId = <<>> \/ \A k \in DOMAIN BRANDS : BRANDS[k].id # brandId[1] THEN Undefined
    ELSE BRANDS[CHOOSE k \in DOMAIN BRANDS : BRANDS[k].id = brandId[1]].name

\* variantColorsStr.split(',').map(c => c.trim()).filter(Boolean).map((color, idx) => ...)
initialVariants(source) ==
    LET cells == Split(IF Falsy(source.variantColors) THEN <<>> ELSE source.variantColors, Comma)
        colors == SelectSeq([k \in DOMAIN cells |-> Trim(cells[k])], LAMBDA c : c # <<>>)
    IN  [idx \in DOMAIN colors |->
            [id |-> <<"v", ToString(idx)>>,
             sku |-> source.sku \o <<"-", ToString(idx)>>,
             color |-> colors[idx], size |-> <<>>,
             price |-> IF Falsy(source.price) THEN <<>> ELSE source.price,
             other |-> <<>>]]

\* !finalSku || finalSku.toUpperCase() === 'TEMP' || finalSku.toUpperCase() === 'AUTO'
IsPlaceholderSku(sku) == Falsy(sku) \/ toUpperCase(sku) \in {<<"TEMP">>, <<"AUTO">>}

\* The SavedProduct of a processed item: the source's own fields and the
\* fields of the AI result.
savedProductOf(type, source, result, xxxx) ==
    [sku |-> IF type = "create" /\ IsPlaceholderSku(source.sku)
             THEN generateSmartSku(Spell(source.productType),
                                   Spell(BrandNameOf(result.brandId)),
                                   Spell(result.model), xxxx)
             ELSE source.sku,
     productType |-> source.productType,
     price |-> source.price,
     imageSource |-> source.imageUrl,
     productName |-> result.productName,
     titleTag |-> result.titleTag,
     metaDescription |-> result.metaDescription,
     suggestedTags |-> result.suggestedTags,
     shortDescription |-> result.shortDescription,
     longDescription |-> result.longDescription,
     primaryCategoryId |-> result.primaryCategoryId,
     categoryIds |-> result.categoryIds,
     attributeIds |-> result.attributeIds,
     brandId |-> result.brandId,
     model |-> result.model,
     isReviewed |-> FALSE,
     originalId |-> IF type = "create" THEN Undefined ELSE source.id,
     originalName |-> IF type = "create" THEN Undefined ELSE source.name,
     variants |-> initialVariants(source)]

(***************************************************************************)
(* Inputs of the bulk workflow: the uploaded files, the answers of the AI  *)
(* service, the random part of a generated SKU, and the products the       *)
(* single-product editor saves.                                            *)
(***************************************************************************)
CreateHeaderLine ==
    <<"sku", Tab, "type", Tab, "brand", Tab, "imageurl", Tab, "price", Tab, "colors">>

CreateRowA1 ==
    <<"A1", Tab, "watch", Tab, "Acme", Tab, Url, Tab, "500", Tab, "Red", Comma, Space, "Blue">>

CreateRowTemp == <<"temp", Tab, "glasses", Tab, "Casio", Tab, Url, Tab, "300", Tab, "Green">>

CreateRowBad == <<"A3", Tab, "necklace", Tab, "Acme", Tab, Url, Tab, "100", Tab, "Red">>

\* The header of the template file: Object.values(CSV_HEADERS).join(',')
TemplateHeaderLine ==
    <<"sku", Comma, "type", Comma, "brand", Comma, "model", Comma, "price", Comma,
      "details", Comma, "imageurl", Comma, "colors">>

\* A row written as the example rows of the template are: details, image URL
\* and colors in quotes, two colors.
TemplateRow ==
    <<"A2", Comma, "watch", Comma, "Acme", Comma, "Diver", Comma, "500", Comma,
      Quote, "Quartz.", Quote, Comma, Quote, Url, Quote, Comma,
      Quote, "Black", Comma, Space, "Silver", Quote>>

\* The data lines of the files written after the template.
TemplateDataLines == { <<TemplateRow, TemplateRow>> }

\* The data lines of the bulk-create files.
CreateDataLines ==
    { <<CreateRowTemp>>, <<CreateRowA1, CreateRowA1>>, <<CreateRowA1, CreateRowBad>>,
      <<CreateRowA1, CreateRowA1, CreateRowA1>> }

EnrichmentHeaderLine ==
    <<"id", Comma, "sku", Comma, "name", Comma, "type", Comma, "brand", Comma, "imageurl">>

\* The data lines of the enrichment files.
EnrichmentDataLines ==
    { << <<"1", Comma, "A1", Comma, "N1", Comma, "watch", Comma, "Acme", Comma, Url>> >>,
      << <<"3", Comma, "A3", Comma, "N1", Comma, "necklace", Comma, "Casio", Comma, Url>> >> }

\* The uploaded files: the empty file, and a header line with at most
\* MaxUploadRows data lines.
UploadTexts ==
    {<<>>} \cup
    {Join(<<CreateHeaderLine>> \o ds, Newline) :
        ds \in {d \in CreateDataLines : Len(d) <= MaxUploadRows}} \cup
    {Join(<<TemplateHeaderLine>> \o ds, Newline) :
        ds \in {d \in TemplateDataLines : Len(d) <= MaxUploadRows}} \cup
    {Join(<<EnrichmentHeaderLine>> \o ds, Newline) :
        ds \in {d \in EnrichmentDataLines : Len(d) <= MaxUploadRows}}

AiResults ==
    { [productName |-> <<"Acme", Space, "Diver">>, titleTag |-> <<"Title">>,
       metaDescription |-> <<"Meta">>, suggestedTags |-> <<"steel">>,
       shortDescription |-> <<"Short">>, longDescription |-> <<"Long">>,
       primaryCategoryId |-> <<2>>, categoryIds |-> <<1, 2>>, attributeIds |-> <<10>>,
       brandId |-> <<5>>, model |-> <<"Diver">>] }

\* Math.floor(Math.random() * 9000 + 1000) lies in 1000..9999; its two ends.
RandomParts == {1000, 9999}

SingleProducts == { [PlainProduct EXCEPT !.sku = <<"A1">>, !.isReviewed = TRUE] }

(***************************************************************************)
(* What the page shows: the guards of the user's operations.               *)
(***************************************************************************)
\* BulkProcessor / EnrichmentProcessor: allDone
allDone == ~isBulkProcessing /\ Len(bulkProducts) > 0

\* mode === 'bulk-create' && editingBulkIndex === null, and the same for
\* 'bulk-enrich'
ProcessorShown == mode \in {"bulk-create", "bulk-enrich"} /\ editingBulkIndex = <<>>

\* The upload form is what the processor renders unless (isProcessing || allDone).
UploadFormShown == ProcessorShown /\ ~(isBulkProcessing \/ allDone)

\* The type a processor passes to processBulkFile.
TypeOfMode == IF mode = "bulk-create" THEN "create" ELSE "enrich"

\* parseCsv / parseEnrichmentCsv as processBulkFile calls them
ParsedFile == ParseText(IF bulkFile.type = "create" THEN "create" ELSE "enrichment",
                        bulkFile.text, BRANDS)

ExternalCall(kind, id) == [kind |-> kind, id |-> id]

\* Mutant of RunLoop: every item of the queue is started at once, as with
\* newProducts.map(async ...).
RunAll(queue, items, i) ==
    [queue |-> [k \in DOMAIN queue |-> [queue[k] EXCEPT !.status = "processing"]],
     i |-> i, over |-> i >= Len(items)]

\* The body of the for loop from index i up to its first await: items whose
\* source has no image URL fail at once with "No image available" and the
\* loop goes on; the first item with a URL is left processing with its fetch
\* started; past the last item the loop is over.
RECURSIVE RunLoop(_, _, _)
RunLoop(queue, items, i) ==
    IF i >= Len(items) THEN [queue |-> queue, i |-> i, over |-> TRUE]
    ELSE LET currentId == items[i + 1].id
             started == MarkProcessing(queue, currentId)
         IN  IF Falsy(items[i + 1].source.imageUrl)
             THEN RunLoop(MarkError(started, currentId, <<"No image available">>), items, i + 1)
             ELSE [queue |-> started, i |-> i, over |-> FALSE]

\* processBulkFile returns: its parameters and locals are gone.
Returns(outcome, error) ==
    /\ bulkPc' = "idle"
    /\ runOutcome' = [kind |-> outcome, error |-> error]
    /\ bulkFile' = NoFile
    /\ newProducts' = <<>>
    /\ loopIndex' = 0

\* The state processBulkFile leaves when it runs on from index i with the
\* queue as given: either waiting for the fetch of the next item, or through
\* the finally block.
ContinueFrom(queue, i) ==
    LET r == RunLoop(queue, newProducts, i)
    IN  /\ bulkProducts' = r.queue
        /\ IF r.over
           THEN /\ isBulkProcessing' = FALSE
                /\ Returns("finished", NoError)
                /\ inFlight' = {}
                /\ UNCHANGED callsStarted
           ELSE /\ bulkPc' = "fetching"
                /\ loopIndex' = r.i
                /\ inFlight' = {ExternalCall("fetch", newProducts[r.i + 1].id)}
                /\ callsStarted' = Append(callsStarted,
                                          ExternalCall("fetch", newProducts[r.i + 1].id))
                /\ UNCHANGED <<isBulkProcessing, runOutcome, bulkFile, newProducts>>

(***************************************************************************)
(* App: processBulkFile, one action per stretch between two awaits.        *)
(***************************************************************************)
\* What no statement of App writes: the utilities' own state, and the
\* browser's storage.
restOfApp == <<treeVars, parseVars, genVars, localStorage, skuVars>>

\* The page state processBulkFile never writes.
userVars == <<mode, savedProducts, isModalOpen, editingBulkIndex, uploads, unreviewRemoved,
              reviewedFrom>>

\* onProcess(file): setIsBulkProcessing(true), then the first timer.
ProcessBulkFile(text) ==
    /\ UploadFormShown
    /\ bulkPc = "idle"
    /\ uploads < MaxUploads
    /\ uploads' = uploads + 1
    /\ isBulkProcessing' = TRUE
    /\ bulkFile' = [type |-> TypeOfMode, text |-> text]
    /\ bulkPc' = "starting"
    /\ queueAtUpload' = bulkProducts
    /\ callsStarted' = <<>>
    /\ runOutcome' = [kind |-> "running", error |-> NoError]
    /\ newProducts' = <<>>
    /\ loopIndex' = 0
    /\ inFlight' = {}
    /\ UNCHANGED <<bulkProducts, mode, savedProducts, isModalOpen, editingBulkIndex,
                   unreviewRemoved, reviewedFrom, restOfApp>>

\* The first timer fires: file.text() is requested.
StartReading ==
    /\ bulkPc = "starting"
    /\ bulkPc' = "reading"
    /\ UNCHANGED <<bulkProducts, isBulkProcessing, bulkFile, newProducts, loopIndex, inFlight,
                   callsStarted, queueAtUpload, runOutcome, userVars, restOfApp>>

\* file.text() rejects: the outer catch, then finally.
ReadFileFails ==
    /\ bulkPc = "reading"
    /\ isBulkProcessing' = FALSE
    /\ Returns("read error", NoError)
    /\ UNCHANGED <<bulkProducts, inFlight, callsStarted, queueAtUpload, userVars, restOfApp>>

\* Mutant of ParseFails: an item is queued all the same and the flag is left
\* set.
ParseFailsQueuesPartial ==
    /\ bulkPc = "reading"
    /\ ParsedFile.status = "thrown" \/ Len(ParsedFile.records) = 0
    /\ bulkProducts' = BulkProductsOf(<<CsvProductOf(<<>>)>>)
    /\ Returns(IF ParsedFile.status = "thrown" THEN "parse error" ELSE "no products",
               ParsedFile.error)
    /\ UNCHANGED <<isBulkProcessing, inFlight, callsStarted, queueAtUpload, userVars, restOfApp>>

\* The parser throws, or hands back no product: alert,
\* setIsBulkProcessing(false), return (and finally).
ParseFails ==
    /\ bulkPc = "reading"
    /\ ParsedFile.status = "thrown" \/ Len(ParsedFile.records) = 0
    /\ isBulkProcessing' = FALSE
    /\ Returns(IF ParsedFile.status = "thrown" THEN "parse error" ELSE "no products",
               ParsedFile.error)
    /\ UNCHANGED <<bulkProducts, inFlight, callsStarted, queueAtUpload, userVars, restOfApp>>

\* setBulkProducts(newProducts), then the second timer.
QueueProducts ==
    /\ bulkPc = "reading"
    /\ ParsedFile.status = "returned" /\ Len(ParsedFile.records) > 0
    /\ newProducts' = BulkProductsOf(ParsedFile.records)
    /\ bulkProducts' = BulkProductsOf(ParsedFile.records)
    /\ bulkPc' = "queued"
    /\ UNCHANGED <<isBulkProcessing, bulkFile, loopIndex, inFlight,
                   callsStarted, queueAtUpload, runOutcome, userVars, restOfApp>>

\* The second timer fires: the loop starts at index 0.
StartLoop ==
    /\ bulkPc = "queued"
    /\ ContinueFrom(bulkProducts, 0)
    /\ UNCHANGED <<queueAtUpload, userVars, restOfApp>>

currentItem == newProducts[loopIndex + 1]

\* fetchImageFromUrl resolves: categorizeProduct is called.
FetchOk ==
    /\ bulkPc = "fetching"
    /\ bulkPc' = "categorizing"
    /\ inFlight' = {ExternalCall("ai", currentItem.id)}
    /\ callsStarted' = Append(callsStarted, ExternalCall("ai", currentItem.id))
    /\ UNCHANGED <<bulkProducts, isBulkProcessing, bulkFile, newProducts, loopIndex,
                   queueAtUpload, runOutcome, userVars, restOfApp>>

\* Mutant of FetchFails: the rejection is caught outside the loop, which ends.
FetchFailsAborts ==
    /\ bulkPc = "fetching"
    /\ bulkProducts' = MarkError(bulkProducts, currentItem.id, <<"Image load failed">>)
    /\ isBulkProcessing' = FALSE
    /\ Returns("finished", NoError)
    /\ inFlight' = {}
    /\ UNCHANGED <<callsStarted, queueAtUpload, userVars, restOfApp>>

\* fetchImageFromUrl rejects: the catch of the iteration, then the next index.
FetchFails ==
    /\ bulkPc = "fetching"
    /\ ContinueFrom(MarkError(bulkProducts, currentItem.id, <<"Image load failed">>),
                    loopIndex + 1)
    /\ UNCHANGED <<queueAtUpload, userVars, restOfApp>>

\* categorizeProduct resolves: the item is completed, then the next index.
CategorizeOk(result, xxxx) ==
    /\ bulkPc = "categorizing"
    /\ ContinueFrom(MarkCompleted(bulkProducts, currentItem.id,
                                  savedProductOf(bulkFile.type, currentItem.source, result, xxxx)),
                    loopIndex + 1)
    /\ UNCHANGED <<queueAtUpload, userVars, restOfApp>>

\* Mutant of CategorizeFails: the rejection is caught nowhere; the call ends
\* with the item and the flag as they are.
CategorizeFailsUncaught ==
    /\ bulkPc = "categorizing"
    /\ Returns("finished", NoError)
    /\ inFlight' = {}
    /\ UNCHANGED <<bulkProducts, isBulkProcessing, callsStarted, queueAtUpload, userVars,
                   restOfApp>>

\* categorizeProduct rejects: the catch of the iteration, then the next index.
CategorizeFails ==
    /\ bulkPc = "categorizing"
    /\ ContinueFrom(MarkError(bulkProducts, currentItem.id, <<"AI error">>), loopIndex + 1)
    /\ UNCHANGED <<queueAtUpload, userVars, restOfApp>>

(***************************************************************************)
(* App: the user's operations.                                             *)
(***************************************************************************)
runVars == <<bulkPc, bulkFile, newProducts, loopIndex, inFlight, callsStarted,
             queueAtUpload, runOutcome, uploads>>

\* TabButton onClick
SetMode(target) ==
    /\ target # mode
    /\ mode' = target
    /\ unreviewRemoved' = 0
    /\ reviewedFrom' = <<>>
    /\ UNCHANGED <<savedProducts, isModalOpen, bulkProducts, isBulkProcessing,
                   editingBulkIndex, runVars, restOfApp>>

\* "View Saved"
OpenModal ==
    /\ ~isModalOpen
    /\ isModalOpen' = TRUE
    /\ unreviewRemoved' = 0
    /\ reviewedFrom' = <<>>
    /\ UNCHANGED <<mode, savedProducts, bulkProducts, isBulkProcessing,
                   editingBulkIndex, runVars, restOfApp>>

\* onClose
CloseModal ==
    /\ isModalOpen
    /\ isModalOpen' = FALSE
    /\ unreviewRemoved' = 0
    /\ reviewedFrom' = <<>>
    /\ UNCHANGED <<mode, savedProducts, bulkProducts, isBulkProcessing,
                   editingBulkIndex, runVars, restOfApp>>

\* onClearAll={() => setSavedProducts([])}
ClearAll ==
    /\ isModalOpen
    /\ savedProducts' = <<>>
    /\ unreviewRemoved' = 0
    /\ reviewedFrom' = <<>>
    /\ UNCHANGED <<mode, isModalOpen, bulkProducts, isBulkProcessing,
                   editingBulkIndex, runVars, restOfApp>>

\* handleSaveProduct, from the editor of the single-product tab
HandleSaveProduct(product) ==
    /\ mode = "single"
    /\ Len(savedProducts) < MaxSaved
    /\ savedProducts' = Append(savedProducts, product)
    /\ unreviewRemoved' = 0
    /\ reviewedFrom' = <<>>
    /\ UNCHANGED <<mode, isModalOpen, bulkProducts, isBulkProcessing,
                   editingBulkIndex, runVars, restOfApp>>

\* The row's controls: rendered when allDone for a completed item.
RowControlsShown(index) ==
    /\ ProcessorShown
    /\ allDone
    /\ index \in DOMAIN bulkProducts
    /\ bulkProducts[index].status = "completed"

\* onEdit={setEditingBulkIndex}
SetEditingBulkIndex(index) ==
    /\ RowControlsShown(index)
    /\ editingBulkIndex' = <<index>>
    /\ unreviewRemoved' = 0
    /\ reviewedFrom' = <<>>
    /\ UNCHANGED <<mode, savedProducts, isModalOpen, bulkProducts, isBulkProcessing,
                   runVars, restOfApp>>

\* onCancel={() => setEditingBulkIndex(null)}
CancelEdit ==
    /\ editingBulkIndex # <<>>
    /\ editingBulkIndex' = <<>>
    /\ unreviewRemoved' = 0
    /\ reviewedFrom' = <<>>
    /\ UNCHANGED <<mode, savedProducts, isModalOpen, bulkProducts, isBulkProcessing,
                   runVars, restOfApp>>

\* The products ProductEditor.handleSave hands over when it edits the given
\* result: a name and a primary category are required, the product is marked
\* reviewed, the SKU of an enriched product is fixed and the SKU field of a
\* created product is retyped.
EditedProducts(result) ==
    { [result EXCEPT !.sku = IF Falsy(result.originalId) THEN <<"S1">> ELSE @,
                     !.productName = <<"Edited">>,
                     !.primaryCategoryId = IF @ = <<>> THEN <<1>> ELSE @,
                     !.isReviewed = TRUE] }

\* prev.map(p => p.sku === product.sku ? { ...product, isReviewed: true } : p)
ReplaceBySku(prev, product) ==
    [k \in DOMAIN prev |->
        IF prev[k].sku = product.sku THEN [product EXCEPT !.isReviewed = TRUE] ELSE prev[k]]

\* Mutant of EditedItem: the edited item is queued again.
RequeuedItem(item, product) == [item EXCEPT !.result = <<product>>, !.status = "pending"]

\* { ...newProducts[editingBulkIndex], result: product, status: 'completed' }
EditedItem(item, product) == [item EXCEPT !.result = <<product>>, !.status = "completed"]

HandleSaveBulkEditedProduct(product) ==
    /\ editingBulkIndex # <<>>
    /\ LET index == editingBulkIndex[1]
           isReviewed == bulkProducts[index].isReviewed
       IN  /\ bulkProducts' = [bulkProducts EXCEPT ![index] = EditedItem(@, product)]
           /\ savedProducts' = IF isReviewed THEN ReplaceBySku(savedProducts, product)
                               ELSE savedProducts
    /\ editingBulkIndex' = <<>>
    /\ unreviewRemoved' = 0
    /\ reviewedFrom' = <<>>
    /\ UNCHANGED <<mode, isModalOpen, isBulkProcessing, runVars, restOfApp>>

\* prev.some(p => p.sku === sku) ? prev : [...prev, { ...result, isReviewed: true }]
AddUnlessSkuSaved(prev, result) ==
    IF \E k \in DOMAIN prev : prev[k].sku = result.sku THEN prev
    ELSE Append(prev, [result EXCEPT !.isReviewed = TRUE])

\* Mutant of WithoutSku: the last record is dropped, whatever its SKU.
WithoutLast(prev, sku) == SubSeq(prev, 1, Len(prev) - 1)

\* prev.filter(p => p.sku !== sku)
WithoutSku(prev, sku) == SelectSeq(prev, LAMBDA p : p.sku # sku)

HandleBulkToggleReviewed(index) ==
    /\ RowControlsShown(index)
    /\ bulkProducts[index].result # <<>>
    /\ LET product == bulkProducts[index]
           newReviewedState == ~product.isReviewed
       IN  /\ bulkProducts' = [bulkProducts EXCEPT ![index].isReviewed = newReviewedState]
           /\ savedProducts' = IF newReviewedState
                               THEN AddUnlessSkuSaved(savedProducts, product.result[1])
                               ELSE WithoutSku(savedProducts, product.result[1].sku)
    /\ unreviewRemoved' = IF Len(savedProducts') < Len(savedProducts)
                          THEN Len(savedProducts) - Len(savedProducts') ELSE 0
    /\ reviewedFrom' = IF bulkProducts[index].isReviewed THEN <<>>
                       ELSE <<[index |-> index, saved |-> savedProducts]>>
    /\ UNCHANGED <<mode, isModalOpen, isBulkProcessing, editingBulkIndex, bulkPc, bulkFile,
                   newProducts, loopIndex, inFlight, callsStarted, queueAtUpload, runOutcome,
                   uploads, restOfApp>>

\* What is recorded about the run that made the queue goes with the queue.
QueueHistoryGone ==
    /\ callsStarted' = <<>>
    /\ queueAtUpload' = <<>>
    /\ runOutcome' = [kind |-> "none", error |-> NoError]
    /\ unreviewRemoved' = 0
    /\ reviewedFrom' = <<>>

HandleBulkReset ==
    /\ ProcessorShown
    /\ allDone
    /\ bulkProducts' = <<>>
    /\ isBulkProcessing' = FALSE
    /\ editingBulkIndex' = <<>>
    /\ QueueHistoryGone
    /\ UNCHANGED <<mode, savedProducts, isModalOpen, bulkPc, bulkFile, newProducts, loopIndex,
                   inFlight, uploads, restOfApp>>

InitBulk == TreeIdle /\ ParseIdle /\ GenIdle /\ BulkIdle /\ SkuIdle

NextBulk ==
    \/ \E text \in UploadTexts : ProcessBulkFile(text)
    \/ StartReading
    \/ ReadFileFails
    \/ ParseFails
    \/ QueueProducts
    \/ StartLoop
    \/ FetchOk
    \/ FetchFails
    \/ \E result \in AiResults, xxxx \in RandomParts : CategorizeOk(result, xxxx)
    \/ CategorizeFails
    \/ \E target \in {"single", "bulk-create", "bulk-enrich"} : SetMode(target)
    \/ OpenModal
    \/ CloseModal
    \/ ClearAll
    \/ \E product \in SingleProducts : HandleSaveProduct(product)
    \/ \E index \in 1..Len(bulkProducts) : SetEditingBulkIndex(index)
    \/ CancelEdit
    \/ editingBulkIndex # <<>> /\
       \E product \in EditedProducts(bulkProducts[editingBulkIndex[1]].result[1]) :
           HandleSaveBulkEditedProduct(product)
    \/ \E index \in 1..Len(bulkProducts) : HandleBulkToggleReviewed(index)
    \/ HandleBulkReset

SpecBulk == InitBulk /\ [][NextBulk]_vars

(***************************************************************************)
(* Properties of the bulk queue                                            *)
(***************************************************************************)
Terminal == {"completed", "error"}

\* The queue of the next state is the same list of items, not a fresh or an
\* emptied one.
SameQueue == /\ Len(bulkProducts') = Len(bulkProducts)
             /\ \A k \in DOMAIN bulkProducts : bulkProducts'[k].id = bulkProducts[k].id

\* C16: every step that keeps the queue (a processing step, a reviewed-toggle,
\* a bulk edit) leaves a pending item pending or processing, a processing item
\* processing or terminal, and a completed or failed item terminal; only a
\* reset or a new upload replaces the queue.
C16_StatusMovesForward ==
    [][SameQueue =>
        \A k \in DOMAIN bulkProducts :
            /\ bulkProducts[k].status \in Terminal => bulkProducts'[k].status \in Terminal
            /\ bulkProducts[k].status = "processing" => bulkProducts'[k].status # "pending"
            /\ bulkProducts[k].status = "pending" => bulkProducts'[k].status \notin Terminal]_vars

\* An item that failed and an item that was completed and then edited in a
\* queue that is still there.
C16_Witness ==
    /\ Len(bulkProducts) = 2
    /\ bulkProducts[1].status = "error"
    /\ bulkProducts[2].status = "completed"
    /\ bulkProducts[2].result[1].productName = <<"Edited">>
    /\ bulkProducts[2].isReviewed

StatusCount(status) == Cardinality({k \in DOMAIN bulkProducts : bulkProducts[k].status = status})

\* The calls the run has started for the item with the given id, in order.
CallsFor(id) == SelectSeq(callsStarted, LAMBDA c : c.id = id)

\* C17: at most one external call is in flight and at most one item is
\* processing; the call in flight is for the processing item; every item
\* before the processing one is completed or failed and every item after it
\* is pending; and the calls started for an item are one image fetch, then
\* at most one AI call.
C17_StrictlySequential ==
    /\ Cardinality(inFlight) <= 1
    /\ StatusCount("processing") <= 1
    /\ \A c \in inFlight :
           \E k \in DOMAIN bulkProducts :
               bulkProducts[k].id = c.id /\ bulkProducts[k].status = "processing"
    /\ \A k \in DOMAIN bulkProducts :
           /\ bulkProducts[k].status # "pending" =>
                  \A j \in 1..(k - 1) : bulkProducts[j].status \in Terminal
           /\ bulkProducts[k].status = "processing" =>
                  inFlight # {} /\ \A j \in (k + 1)..Len(bulkProducts) :
                                       bulkProducts[j].status = "pending"
           /\ CallsFor(bulkProducts[k].id) \in
                  { <<>>, <<ExternalCall("fetch", bulkProducts[k].id)>>,
                    <<ExternalCall("fetch", bulkProducts[k].id),
                      ExternalCall("ai", bulkProducts[k].id)>> }

\* The AI call of the second item is in flight after the first item was
\* completed.
C17_Witness ==
    /\ Len(bulkProducts) = 2
    /\ bulkProducts[1].status = "completed"
    /\ bulkProducts[2].status = "processing"
    /\ inFlight = {ExternalCall("ai", bulkProducts[2].id)}
    /\ Len(callsStarted) = 4

\* C18: an item has status error exactly when an error message is recorded
\* on it, and the run never stops on a failure: whenever no run is under way
\* no item of the queue is left pending or processing, whatever failed
\* before it.
C18_FailureStaysWithItem ==
    /\ \A k \in DOMAIN bulkProducts :
           /\ bulkProducts[k].status = "error" <=> bulkProducts[k].error # Undefined
           /\ bulkProducts[k].status = "error" => bulkProducts[k].result = <<>>
    /\ ~isBulkProcessing => \A k \in DOMAIN bulkProducts : bulkProducts[k].status \in Terminal
    /\ runOutcome.kind = "finished" => ~isBulkProcessing

\* The fetch of the first item failed, and the second item was completed
\* all the same.
C18_Witness ==
    /\ runOutcome.kind = "finished"
    /\ Len(bulkProducts) = 2
    /\ bulkProducts[1].status = "error"
    /\ bulkProducts[1].error = <<"Image load failed">>
    /\ bulkProducts[2].status = "completed"
    /\ Len(callsStarted) = 3

\* C19: after a run that ended on a parse error the queue is the queue of
\* before the upload with no item added, the run has started no image fetch
\* and no AI call, none is in flight, and the processing flag is false.
C19_ParseFailureQueuesNothing ==
    runOutcome.kind = "parse error" =>
        /\ bulkProducts = queueAtUpload
        /\ callsStarted = <<>>
        /\ inFlight = {}
        /\ ~isBulkProcessing

\* The second data row of the file was the one rejected: the first row was
\* valid, and still nothing was queued.
C19_Witness ==
    /\ runOutcome.kind = "parse error"
    /\ runOutcome.error = RowError(1, "Type must be 'watch' or 'glasses'.")
    /\ bulkProducts = <<>>
    /\ bulkPc = "idle"

(***************************************************************************)
(* Properties of the saved product list                                    *)
(***************************************************************************)
SavedWithSku(list, sku) == Cardinality({k \in DOMAIN list : list[k].sku = sku})

SavedSkus == {savedProducts[k].sku : k \in DOMAIN savedProducts}

\* The step un-marks a reviewed, completed item whose result has this SKU.
Unreviews(sku) ==
    /\ SameQueue
    /\ \E k \in DOMAIN bulkProducts :
           /\ bulkProducts[k].status = "completed"
           /\ bulkProducts[k].result[1].sku = sku
           /\ bulkProducts[k].isReviewed /\ ~bulkProducts'[k].isReviewed

\* C20 as stated: the saved list gets shorter only in a step that empties it
\* and touches nothing of the queue, which is the clear-all operation.
C20_OnlyClearAllRemoves ==
    [][Len(savedProducts') < Len(savedProducts) =>
           savedProducts' = <<>> /\ UNCHANGED bulkProducts]_vars

\* C20, amended: the number of saved records with a given SKU goes down only
\* when the whole list is emptied (clear-all), or when a completed bulk item
\* whose result has that SKU is un-marked as reviewed; that step removes
\* every saved record with the SKU and no other record.
C20_RemovedByClearAllOrUnreview ==
    [][\A sku \in SavedSkus :
           SavedWithSku(savedProducts', sku) < SavedWithSku(savedProducts, sku) =>
               \/ savedProducts' = <<>> /\ UNCHANGED bulkProducts
               \/ /\ Unreviews(sku)
                  /\ savedProducts' = SelectSeq(savedProducts, LAMBDA p : p.sku # sku)]_vars

\* The last reviewed-toggle took one record out of the saved list and left
\* another one in it.
C20_Witness ==
    /\ unreviewRemoved = 1
    /\ Len(savedProducts) = 1
    /\ \E k \in DOMAIN bulkProducts :
           /\ bulkProducts[k].status = "completed" /\ ~bulkProducts[k].isReviewed
           /\ bulkProducts[k].result[1].sku \notin SavedSkus

(***************************************************************************)
(* Persistence of the saved product list                                   *)
(***************************************************************************)
\* localStorage.getItem('savedProducts'), parsed; no list when the key is
\* absent.
StoredProducts ==
    IF "savedProducts" \in DOMAIN localStorage THEN localStorage["savedProducts"] ELSE <<>>

\* C21: the list stored under the key 'savedProducts' equals the saved
\* product list in memory.
C21_StoredEqualsSaved == StoredProducts = savedProducts

(* Variants seeded from the colors of a row *)
\* The field of a line under the header h, read as a delimited file is read:
\* separators inside a quoted field belong to the field.
FieldUnder(line, headerLine, h) ==
    LET sep == detectSeparator(headerLine)
        hdr == Split(headerLine, sep)
        fields == SplitOutsideQuotes(line, sep)
        at == {j \in DOMAIN hdr : Trim(hdr[j]) = <<h>> /\ j \in DOMAIN fields}
    IN  IF at = {} THEN <<>> ELSE StripQuotes(Trim(fields[CHOOSE j \in at : TRUE]))

\* The colors a line lists: the entries of its colors field.
ListedColors(line, headerLine) ==
    LET cells == Split(FieldUnder(line, headerLine, "colors"), Comma)
    IN  SelectSeq([k \in DOMAIN cells |-> Trim(cells[k])], LAMBDA c : c # <<>>)

\* The lines of the file processBulkFile is working on.
FileLines == SplitLines(bulkFile.text)

\* C22: a completed item of a bulk-create run has one variant per color its
\* row lists, in the listed order, each with an empty size and the base price
\* of the row.
C22_OneVariantPerListedColor ==
    \A i \in DOMAIN bulkProducts :
        (bulkFile.type = "create" /\ bulkProducts[i].status = "completed") =>
            LET listed == ListedColors(FileLines[i + 1], FileLines[1])
                variants == bulkProducts[i].result[1].variants
            IN  /\ Len(variants) = Len(listed)
                /\ \A k \in DOMAIN variants :
                       /\ variants[k].color = listed[k]
                       /\ variants[k].size = <<>>
                       /\ variants[k].price = FieldUnder(FileLines[i + 1], FileLines[1], "price")

\* The same for the rows of tab-separated files only.
C22_TabSeparatedRows ==
    detectSeparator(IF FileLines = <<>> THEN <<>> ELSE FileLines[1]) = Tab
        => C22_OneVariantPerListedColor

(***************************************************************************)
(* generateSmartSku called on its own.                                     *)
(***************************************************************************)
\* The characters of the names: a letter, a digit, a hyphen.
NameChars == {"a", "7", "-"}

\* The brand and model names: absent, empty, or up to MaxNameLen characters.
Names == {Undefined} \cup UNION {[1..n -> NameChars] : n \in 0..MaxNameLen}

ProductTypes ==
    {Undefined, <<"W", "a", "t", "c", "h">>, <<"g", "l", "a", "s", "s", "e", "s">>,
     <<"r", "i", "n", "g">>}

InitSku ==
    /\ skuArgs \in [productType : ProductTypes, brandName : Names, modelName : Names]
    /\ skuPc = "ready"
    /\ smartSku = <<>>
    /\ TreeIdle
    /\ ParseIdle
    /\ GenIdle
    /\ BulkIdle

GenerateSmartSku(xxxx) ==
    /\ skuPc = "ready"
    /\ smartSku' = generateSmartSku(skuArgs.productType, skuArgs.brandName,
                                    skuArgs.modelName, xxxx)
    /\ skuPc' = "done"
    /\ UNCHANGED <<skuArgs, treeVars, parseVars, genVars, bulkVars>>

NextSku == \E xxxx \in RandomParts : GenerateSmartSku(xxxx)

SpecSku == InitSku /\ [][NextSku]_vars

\* The parts of the returned string between the hyphens.
SkuParts == Split(smartSku, "-")

\* A character that has no other upper-case form.
IsUpperCase(c) == UpperChar(c) = c

\* C23: the returned string is CAT-BR-MDL-XXXX: CAT is WAT, GLA or PRD; BR
\* is exactly 2 upper-case characters, the first 2 of the brand name, or XX
\* without a brand; MDL is exactly 3 upper-case characters, the first 3 of
\* the model name, or PRO without a model; XXXX is a number from 1000 to 9999.
C23_SkuForm ==
    skuPc = "done" =>
        /\ Len(SkuParts) = 4
        /\ SkuParts[1] \in {<<"W", "A", "T">>, <<"G", "L", "A">>, <<"P", "R", "D">>}
        /\ Len(SkuParts[2]) = 2
        /\ \A k \in DOMAIN SkuParts[2] : IsUpperCase(SkuParts[2][k])
        /\ Falsy(skuArgs.brandName) => SkuParts[2] = <<"X", "X">>
        /\ Len(SkuParts[3]) = 3
        /\ \A k \in DOMAIN SkuParts[3] : IsUpperCase(SkuParts[3][k])
        /\ Falsy(skuArgs.modelName) => SkuParts[3] = <<"P", "R", "O">>
        /\ SkuParts[4] \in {<<ToString(n)>> : n \in 1000..9999}

\* The same for names that begin with letters and digits only.
C23_CleanNames ==
    (/\ skuPc = "done"
     /\ Falsy(skuArgs.brandName) \/ "-" \notin Range(substring(skuArgs.brandName, 2))
     /\ Falsy(skuArgs.modelName) \/ "-" \notin Range(substring(skuArgs.modelName, 3)))
        => C23_SkuForm

(* The rows parseCsv reassembles from the physical lines *)
\* parseCsv has built its rows.
Reassembled ==
    csvFormat = "create" /\ parsePc \in {"rows", "returned", "thrown"} /\ Len(rawLines) >= 2

\* The physical data lines, trimmed.
TrimmedDataLines == [k \in 1..(Len(rawLines) - 1) |-> Trim(rawLines[k + 1])]

\* A text with a separator for every column but one.
HasAllColumns(text) == MatchCount(text, separator) >= Len(header) - 1

\* The lines that g assigns to row j, in their order, joined by spaces.
JoinedGroup(g, j) ==
    LET ks == SelectSeq([k \in DOMAIN TrimmedDataLines |-> k], LAMBDA k : g[k] = j)
    IN  Join([n \in DOMAIN ks |-> TrimmedDataLines[ks[n]]], Space)

\* g assigns every line to the row it went into (0: to none): only blank
\* lines go into none, the rows take the lines in order, and every row is its
\* lines joined by spaces.
IsGrouping(g) ==
    /\ \A k \in DOMAIN g : g[k] = 0 => TrimmedDataLines[k] = <<>>
    /\ \A k1, k2 \in DOMAIN g : (k1 < k2 /\ g[k1] # 0 /\ g[k2] # 0) => g[k1] <= g[k2]
    /\ \A j \in DOMAIN lines : (\E k \in DOMAIN g : g[k] = j) /\ lines[j] = JoinedGroup(g, j)

MappedRows ==
    IF parsePc = "returned" THEN DOMAIN lines
    ELSE IF parsePc = "thrown" /\ parseResult.error.kind = "row"
         THEN 1..(parseResult.error.row - 1)
    ELSE {}

\* The values of a row and the mapping built from them.
ValuesOf(j) == Split(lines[j], separator)

RowMapOf(j) == RowOf(header, ValuesOf(j), 1, <<>>)

\* What the mapping holds for a value of the line: the value trimmed and
\* without its outer quotes, nothing for an empty value.
Slotted(value) == IF value = <<>> THEN Undefined ELSE StripQuotes(Trim(value))

\* The position of the details column in the header, 0 when there is none.
DetailsIndex ==
    IF \E i \in DOMAIN header : header[i] = CSV_HEADERS.DETAILS
    THEN CHOOSE i \in DOMAIN header : header[i] = CSV_HEADERS.DETAILS
    ELSE 0

\* C25: a create-format row with more values than header columns, under a
\* header with a details column, has its surplus values joined with the
\* separator into the details field, and every column after details holds
\* the value that followed the details text.
C25_SurplusJoinedIntoDetails ==
    \A j \in MappedRows :
        (csvFormat = "create" /\ Len(ValuesOf(j)) > Len(header) /\ DetailsIndex # 0) =>
            LET extra == Len(ValuesOf(j)) - Len(header)
                d == DetailsIndex
            IN  /\ Get(RowMapOf(j), CSV_HEADERS.DETAILS)
                      = Slotted(Join(SubSeq(ValuesOf(j), d, d + extra), separator))
                /\ \A i \in (d + 1)..Len(header) :
                       Get(RowMapOf(j), header[i]) = Slotted(ValuesOf(j)[i + extra])

\* C26: the mapping of a row has no entry that is the empty string.
C26_NoEmptyStringInRowMap ==
    \A j \in MappedRows : \A h \in DOMAIN RowMapOf(j) : RowMapOf(j)[h] # <<>>

\* The same for the rows all of whose values hold more than spaces and quotes.
C26_RowsWithoutBlankValues ==
    \A j \in MappedRows :
        (\A i \in DOMAIN ValuesOf(j) : ValuesOf(j)[i] = <<>> \/ StripQuotes(Trim(ValuesOf(j)[i])) # <<>>)
            => \A h \in DOMAIN RowMapOf(j) : RowMapOf(j)[h] # <<>>

(* The width of the exported rows *)
\* C27: every data row of an export has as many fields as its header row: 25
\* when some product of the batch has provenance, 23 otherwise.
C27_RowsAsWideAsHeader ==
    Exported =>
        /\ Len(ExportHeader) = IF hasEnrichmentData(products) THEN 25 ELSE 23
        /\ \A r \in DOMAIN DataRows : Len(DataRows[r]) = Len(ExportHeader)

\* A batch of a product with provenance and one variant and a product
\* without provenance and without variants, exported 25 fields wide.
C27_Witness ==
    /\ Exported
    /\ Len(products) = 2
    /\ ~Falsy(products[1].originalId) /\ Len(products[1].variants) = 1
    /\ Falsy(products[2].originalId) /\ Falsy(products[2].originalName)
    /\ products[2].variants = <<>>
    /\ Len(DataRows) = 2
    /\ Len(DataRows[2]) = 25

(* Termination of a bulk run *)
\* The continuations of processBulkFile are run once they are due: the two
\* timers fire, file.text() settles, and every image fetch and every AI call
\* resolves or rejects.
FairRun ==
    /\ WF_vars(StartReading)
    /\ WF_vars(ReadFileFails \/ ParseFails \/ QueueProducts)
    /\ WF_vars(StartLoop)
    /\ WF_vars(FetchOk \/ FetchFails)
    /\ WF_vars((\E result \in AiResults, xxxx \in RandomParts : CategorizeOk(result, xxxx))
               \/ CategorizeFails)

\* A run and what the user can do while it is under way.  Reviewing and
\* editing an item need allDone, which is false from the upload until the flag
\* is down; they are the steps of NextBulk left out here.
NextRun ==
    \/ \E text \in UploadTexts : ProcessBulkFile(text)
    \/ StartReading
    \/ ReadFileFails
    \/ ParseFails
    \/ QueueProducts
    \/ StartLoop
    \/ FetchOk
    \/ FetchFails
    \/ \E result \in AiResults, xxxx \in RandomParts : CategorizeOk(result, xxxx)
    \/ CategorizeFails
    \/ \E target \in {"single", "bulk-create", "bulk-enrich"} : SetMode(target)
    \/ OpenModal
    \/ CloseModal
    \/ ClearAll
    \/ \E product \in SingleProducts : HandleSaveProduct(product)
    \/ HandleBulkReset

SpecBulkFair == InitBulk /\ [][NextRun]_vars /\ FairRun

\* The file was parsed and its items were queued.
Accepted == bulkPc = "queued"

\* Every item of the queue is completed or failed, and the flag is down.
Settled ==
    /\ ~isBulkProcessing
    /\ \A i \in DOMAIN bulkProducts : bulkProducts[i].status \in {"completed", "error"}

\* C28: once the items of an accepted file are queued, every item eventually
\* is completed or failed and the processing flag eventually is false.
C28_RunSettles == Accepted ~> Settled

\* A run over two items has ended, one item completed and one failed.
C28_Witness ==
    /\ Settled
    /\ runOutcome.kind = "finished"
    /\ Len(bulkProducts) = 2
    /\ bulkProducts[1].status = "completed"
    /\ bulkProducts[2].status = "error"

(* Review and un-review of a queue item *)
\* The step un-marks the item that the step before it marked reviewed.
UnreviewsJustReviewed ==
    /\ reviewedFrom # <<>>
    /\ reviewedFrom[1].index \in DOMAIN bulkProducts
    /\ bulkProducts[reviewedFrom[1].index].isReviewed
    /\ Len(bulkProducts') = Len(bulkProducts)
    /\ ~bulkProducts'[reviewedFrom[1].index].isReviewed

\* C29: marking an item reviewed and un-marking it right away leaves the saved
\* product list as it was before the two steps.
C29_ReviewThenUnreviewRestores ==
    [][UnreviewsJustReviewed => savedProducts' = reviewedFrom[1].saved]_vars

\* The same for an item whose SKU no saved product carried when it was marked.
C29_RestoresWhenSkuWasFree ==
    [][(/\ UnreviewsJustReviewed
        /\ \A k \in DOMAIN reviewedFrom[1].saved :
               reviewedFrom[1].saved[k].sku # bulkProducts[reviewedFrom[1].index].result[1].sku)
           => savedProducts' = reviewedFrom[1].saved]_vars

\* C30: the reviewed flag on the result of a completed item equals the
\* reviewed flag of the item.
C30_ResultFlagEqualsItemFlag ==
    \A i \in DOMAIN bulkProducts :
        (bulkProducts[i].status = "completed" /\ bulkProducts[i].result # <<>>)
            => bulkProducts[i].result[1].isReviewed = bulkProducts[i].isReviewed

\* The same for the items that were neither marked reviewed nor edited.
C30_UntouchedItems ==
    \A i \in DOMAIN bulkProducts :
        (/\ bulkProducts[i].status = "completed"
         /\ bulkProducts[i].result # <<>>
         /\ ~bulkProducts[i].isReviewed
         /\ bulkProducts[i].result[1].productName # <<"Edited">>)
            => bulkProducts[i].result[1].isReviewed = bulkProducts[i].isReviewed

====
